---- MODULE Spec2Model ----
(***************************************************************************)
(* Interception runtime of cdpnetool: the paused-event consumer, the       *)
(* bounded dispatch through the worker pool, Manager.handle, the pause /   *)
(* approval coordinator and Manager.Approve.                               *)
(*                                                                         *)
(* Every paused event carries its own request id, so an event and its id   *)
(* are the same value here.  Goroutines are processes with a program       *)
(* counter.  A step runs a goroutine from one point where it can block (a  *)
(* channel send or receive, a wait) to the next; the mutex-protected       *)
(* sections of the approvals map contain no blocking operation and are     *)
(* part of the step that enters them.  Approve is two steps, the lookup    *)
(* and the deposit, because the registration can go away between them.     *)
(*                                                                         *)
(* Three further specifications share the variables: ExecSpec applies the  *)
(* rule executor to one paused event, CaptureSpec applies the body-capture *)
(* predicate to a list of response headers, and AttachSpec runs the        *)
(* manager's target attachment with its workspace goroutines.  Each keeps  *)
(* the variables of the other parts at their idle values.                  *)
(***************************************************************************)
EXTENDS Integers, Sequences, FiniteSets, TLC

\* ---------------------------------------------------------------- bounds
NumEvents == 3      \* paused events the stream delivers
Concurrency == 1    \* workers of the pool (SetConcurrency's n)
QueueCap == 1       \* slots of the pool queue
PendingCap == 1     \* capacity of the pending channel handed to New
EventCap == 1       \* capacity of the event channel handed to New

Events == 1..NumEvents
NoId == NumEvents + 1   \* an approval id no paused event carries
None == "none"

VARIABLES
    pool,           \* m.pool # nil: SetConcurrency configured a bounded pool
    pendingNil,     \* m.pending = nil
    queue,          \* workerPool.queue: accepted tasks not yet taken by a worker
    totalSubmit,    \* workerPool.totalSubmit
    totalDrop,      \* workerPool.totalDrop
    nextEv,         \* the next paused event rp.Recv() returns
    cpc,            \* consumer goroutine: "recv" or "degrade" (inside degradeAndContinue)
    pc,             \* per paused event: where its processing stands
    ncalls,         \* per paused event: terminal protocol calls issued so far
    last,           \* the terminal call the latest step issued, if it issued one
    approvals,      \* m.approvals: the registered ids
    approvalsMu,    \* m.approvalsMu: who holds it when a step ends
    ch,             \* per id: the one-slot approval channel, <<>> or <<rewrite>>
    pending,        \* m.pending: how many pending items are queued
    events,         \* m.events: how many events are queued
    apc,            \* the goroutine calling Approve
    \* the rule executor (package executor), one execution
    erules,         \* matchedRules: the matched rules handed to the executor
    eev,            \* e.ev: the paused event the executor was built for
    eres,           \* the ExecutionResult, once ExecuteRequest / ExecuteResponse ran
    ecfg,           \* the loaded configuration: what its rules are made of
    eopts,          \* e.opts.MaxCaptureSize
    \* the target attachment of the Manager
    mode,           \* m.mode
    fixedTarget,    \* m.fixedTarget
    currentTarget,  \* m.currentTarget
    workspaceStop,  \* m.workspaceStop # nil: the workspace loop is running
    watchers,       \* m.watchers: the targets that have a visibility watcher
    upc,            \* the goroutine calling AttachTarget; it holds m.attachMu inside
    wpc,            \* the workspace loop's goroutine inside checkWorkspace
    vpc,            \* a watcher goroutine inside onTargetVisible
    pinned,         \* what the latest explicit call established, until the next one
    hpc,            \* a consume goroutine inside handleStreamError
    ctx,            \* m.ctx: "nil", "live" or "done" (cancelled)
    conn,           \* m.conn: "nil", "open" or "closed"
    consumers,      \* consume goroutines reading the current paused stream
    failedc,        \* consume goroutines whose Recv returned an error
    att,            \* the latest step of the attachment, when it is one to report
    \* the service layer (package service)
    sessions,       \* svc.sessions: the ids that are keys of the map
    ses,            \* per id in the map: its session; of a stopped one, its pool
    nextID,         \* the next id uuid.New() returns
    failedStart,    \* the ids generated by a StartSession that failed
    sret,           \* what the latest service call was and returned
    eval,           \* an evaluation of the rule engine in progress
    \* the watcher registry (manager.go)
    wreg,           \* m.watchers: per target id the watcher registered, if any
    wt,             \* per watcher started: its target id, and its goroutine
    \* interception per target (package service)
    intrEnabled,    \* the interceptor's enabled flag
    msessions,      \* the targets the session's manager is attached to
    intercepted,    \* the targets on which interception is enabled
    tpc,            \* the goroutine calling svc.AttachTarget
    ipc,            \* the goroutine calling Enable- or DisableInterception
    intrLast,       \* the latest of those two calls, and whether it has returned
    \* the client and context a handler uses (handler.go, manager.go)
    attachGen,      \* the attachment m.client and m.ctx belong to, by number
    inflight,       \* the paused event being handled, and where its handler is
    pcall,          \* the protocol call the latest step made, if it made one
    \* the event channel of a session at StopSession (package service)
    stopStep,       \* StopSession: not called, waiting in workPool.Stop, or done
    handlers,       \* per pool worker, where the handle it runs is
    degrader,       \* the consumer goroutine: receiving, degrading, or gone
    buffered,       \* len(ses.events)
    sendOnClosed    \* the latest step was a send on the closed channel

rvars == <<pool, pendingNil, queue, totalSubmit, totalDrop, nextEv, cpc,
           pc, ncalls, last, approvals, approvalsMu, ch, pending,
           events, apc>>

xvars == <<erules, eev, eres, ecfg, eopts>>

avars == <<mode, fixedTarget, currentTarget, workspaceStop, watchers, upc, wpc,
           vpc, pinned, hpc, ctx, conn, consumers, failedc, att>>

svars == <<sessions, ses, nextID, failedStart, sret, eval>>

wvars == <<wreg, wt>>

ivars == <<intrEnabled, msessions, intercepted, tpc, ipc, intrLast>>

gvars == <<attachGen, inflight, pcall>>

cvars == <<stopStep, handlers, degrader, buffered, sendOnClosed>>

zvars == <<wvars, ivars, gvars, cvars>>

vars == <<rvars, xvars, avars, svars, zvars>>

\* ------------------------------------------------------- rewrites, calls
\* rulespec.Rewrite as hasEffectiveMutations reads it: url, method and body are
\* pointers (TRUE = non-nil), headers, query and cookies are map sizes.
EmptyRewrite == [url |-> FALSE, method |-> FALSE, headers |-> 0, query |-> 0,
                 cookies |-> 0, body |-> FALSE]

Rewrites == {EmptyRewrite, [EmptyRewrite EXCEPT !.body = TRUE]}

hasEffectiveMutations_Mut(mut) ==
    \/ mut.url \/ mut.method
    \/ mut.headers >= 0 \/ mut.query > 0 \/ mut.cookies > 0
    \/ mut.body

hasEffectiveMutations(mut) ==
    \/ mut.url \/ mut.method
    \/ mut.headers > 0 \/ mut.query > 0 \/ mut.cookies > 0
    \/ mut.body

\* The terminal protocol calls: what is called, and whether it carries a change.
Call(kind, mutated) == [kind |-> kind, mutated |-> mutated]
applyContinue == Call("continue", FALSE)
applyFail == Call("fail", FALSE)
applyRespond == Call("fulfill", FALSE)
applyRewrite(mut) == Call("continue", TRUE)

\* p.DefaultAction.Type: the three named types, and any other string.
PauseDefaultTypes == {"fulfill", "fail", "continue_mutated", "other"}

applyPauseDefaultAction(t) ==
    CASE t = "fulfill" -> applyRespond
      [] t = "fail" -> applyFail
      [] t = "continue_mutated" -> applyContinue
      [] OTHER -> applyContinue

\* mut is what waitForApproval returned: <<rewrite>>, or <<>> for nil.
applyApprovalResult(mut, t) ==
    IF mut # <<>>
    THEN IF hasEffectiveMutations(mut[1]) THEN applyRewrite(mut[1]) ELSE applyContinue
    ELSE applyPauseDefaultAction(t)

\* What a step that issues no terminal call leaves in last.
NoCall == [path |-> None, def |-> None, mut |-> EmptyRewrite, call |-> Call(None, FALSE)]

\* A terminal call for e: counted, and shown with the path that issued it, the
\* default type it read (t) and the approval's rewrite it read (mut), if any.
Issue(e, path, t, mut, call) ==
    /\ ncalls' = [ncalls EXCEPT ![e] = @ + 1]
    /\ last' = [path |-> path, def |-> t, mut |-> mut, call |-> call]

\* Holders of m.approvalsMu.
Free == "free"

\* ------------------------------------------------------------ worker pool
submit_Mut(q) == Len(q) <= QueueCap

submit(q) == Len(q) < QueueCap

RunPCs == {"run", "wait", "emit"}

Running == Cardinality({e \in Events : pc[e] \in RunPCs})

\* The caller of Approve: not in Approve (its last call, if any, deposited), or
\* returned from a call that found no registration.  In between it stands
\* before the select with the id it found.
Idle == [pc |-> "idle", id |-> NoId]

Absent == [pc |-> "absent", id |-> NoId]

\* ------------------------------------------------------------------ Init
\* The runtime as New leaves it.
RuntimeInit ==
    /\ pool \in BOOLEAN
    /\ pendingNil \in BOOLEAN
    /\ queue = <<>>
    /\ totalSubmit = 0
    /\ totalDrop = 0
    /\ nextEv = 1
    /\ cpc = "recv"
    /\ pc = [e \in Events |-> "new"]
    /\ ncalls = [e \in Events |-> 0]
    /\ last = NoCall
    /\ approvals = {}
    /\ approvalsMu = Free
    /\ ch = [e \in Events |-> <<>>]
    /\ pending = 0
    /\ events = 0
    /\ apc = Idle

\* The runtime, the executor and the attachment are studied one at a time: each
\* specification starts the other two in the state below and never moves them.
RuntimeIdle == RuntimeInit /\ ~pool /\ ~pendingNil

ExecIdle == erules = <<>> /\ eev = None /\ eres = None /\ ecfg = None /\ eopts = 0

AttachIdle ==
    /\ mode = None /\ fixedTarget = None /\ currentTarget = None
    /\ workspaceStop = FALSE /\ watchers = {} /\ upc = None
    /\ wpc = None /\ vpc = None /\ pinned = None /\ hpc = None
    /\ ctx = None /\ conn = None /\ consumers = 0 /\ failedc = 0 /\ att = None

ServiceIdle ==
    /\ sessions = {} /\ ses = None /\ nextID = 0 /\ failedStart = {}
    /\ sret = None /\ eval = None

WatchIdle == wreg = None /\ wt = None

InterceptIdle ==
    /\ intrEnabled = FALSE /\ msessions = {} /\ intercepted = {}
    /\ tpc = None /\ ipc = None /\ intrLast = None

ClientIdle == attachGen = 0 /\ inflight = None /\ pcall = None

CloseIdle ==
    /\ stopStep = None /\ handlers = None /\ degrader = None
    /\ buffered = 0 /\ sendOnClosed = FALSE

OtherIdle == WatchIdle /\ InterceptIdle /\ ClientIdle /\ CloseIdle

Init == RuntimeInit /\ ExecIdle /\ AttachIdle /\ ServiceIdle /\ OtherIdle

\* ------------------------------------------------- consumer and dispatch
\* consume's loop body: rp.Recv() returns event e and dispatchPaused(e) runs.
\* Without a pool the handler is spawned (go m.handle); with one the task is
\* offered to it, and a rejected event is continued by degradeAndContinue on the
\* consumer goroutine, which then has the "degraded" event left to send.
dispatchPaused(e) ==
    /\ cpc = "recv"
    /\ nextEv = e
    /\ nextEv' = e + 1
    /\ IF ~pool
       THEN /\ pc' = [pc EXCEPT ![e] = "run"]
            /\ last' = NoCall
            /\ UNCHANGED <<queue, totalSubmit, totalDrop, cpc, ncalls>>
       ELSE /\ totalSubmit' = totalSubmit + 1
            /\ IF submit(queue)
               THEN /\ queue' = Append(queue, e)
                    /\ pc' = [pc EXCEPT ![e] = "queued"]
                    /\ last' = NoCall
                    /\ UNCHANGED <<totalDrop, cpc, ncalls>>
               ELSE /\ totalDrop' = totalDrop + 1
                    /\ Issue(e, "rejected", None, EmptyRewrite, applyContinue)
                    /\ pc' = [pc EXCEPT ![e] = "degrade"]
                    /\ cpc' = "degrade"
                    /\ UNCHANGED queue
    /\ UNCHANGED <<zvars, xvars, avars, svars, pool, pendingNil, approvals, approvalsMu, ch,
                   pending, events, apc>>

\* degradeAndContinue's last statement: m.events <- Event{Type: "degraded"}.
degradeAndContinue(e) ==
    /\ cpc = "degrade"
    /\ pc[e] = "degrade"
    /\ events < EventCap
    /\ events' = events + 1
    /\ pc' = [pc EXCEPT ![e] = "done"]
    /\ cpc' = "recv"
    /\ last' = NoCall
    /\ UNCHANGED <<zvars, xvars, avars, svars, pool, pendingNil, queue, totalSubmit, totalDrop, nextEv,
                   ncalls, approvals, approvalsMu, ch, pending, apc>>

\* A pool worker takes the oldest queued task and runs it.
worker ==
    /\ pool
    /\ queue # <<>>
    /\ Running < Concurrency
    /\ pc' = [pc EXCEPT ![Head(queue)] = "run"]
    /\ queue' = Tail(queue)
    /\ last' = NoCall
    /\ UNCHANGED <<zvars, xvars, avars, svars, pool, pendingNil, totalSubmit, totalDrop, nextEv, cpc,
                   ncalls, approvals, approvalsMu, ch, pending, events, apc>>

\* ------------------------------------------------------------ applyPause
\* applyPause up to waitForApproval: registerApproval (lock, map write,
\* unlock), then sendPendingItem.  A nil pending channel counts as sent; a full
\* one takes handlePauseOverflow and applyPause returns at once.
applyPause_Mut(e, t) ==
    /\ approvals' = approvals \cup {e}
    /\ ch' = [ch EXCEPT ![e] = <<>>]
    /\ approvalsMu' = approvalsMu
    /\ IF pendingNil \/ pending < PendingCap
       THEN /\ pending' = IF pendingNil THEN pending ELSE pending + 1
            /\ pc' = [pc EXCEPT ![e] = "wait"]
            /\ last' = NoCall
            /\ UNCHANGED ncalls
       ELSE /\ Issue(e, "overflow", t, EmptyRewrite, applyPauseDefaultAction(t))
            /\ pc' = [pc EXCEPT ![e] = "wait"]
            /\ UNCHANGED pending

applyPause(e, t) ==
    /\ approvals' = approvals \cup {e}
    /\ ch' = [ch EXCEPT ![e] = <<>>]
    /\ approvalsMu' = approvalsMu
    /\ IF pendingNil \/ pending < PendingCap
       THEN /\ pending' = IF pendingNil THEN pending ELSE pending + 1
            /\ pc' = [pc EXCEPT ![e] = "wait"]
            /\ last' = NoCall
            /\ UNCHANGED ncalls
       ELSE /\ Issue(e, "overflow", t, EmptyRewrite, applyPauseDefaultAction(t))
            /\ pc' = [pc EXCEPT ![e] = "done"]
            /\ UNCHANGED pending

\* The rest of applyPause: waitForApproval's select (the channel case takes the
\* deposited rewrite, the timer case yields nil, and the timer can fire whatever
\* the channel holds), applyApprovalResult, unregisterApproval (lock, map
\* delete, unlock); then handle returns.  The channel is dropped with the
\* registration: nothing reads it again.  p.DefaultAction.Type is a field of
\* the rule's pause action that nothing reads before applyPauseDefaultAction, so
\* it is drawn where it is read.
waitForApproval_Mut(e) ==
    /\ pc[e] = "wait"
    /\ approvalsMu = Free
    /\ ch[e] # <<>>
    /\ \E t \in PauseDefaultTypes :
          Issue(e, "approved", None, ch[e][1], applyApprovalResult(ch[e], t))
    /\ approvals' = approvals \ {e}
    /\ ch' = [ch EXCEPT ![e] = <<>>]
    /\ pc' = [pc EXCEPT ![e] = "done"]
    /\ UNCHANGED <<zvars, xvars, avars, svars, pool, pendingNil, queue, totalSubmit, totalDrop, nextEv,
                   cpc, approvalsMu, pending, events, apc>>

waitForApproval(e) ==
    /\ pc[e] = "wait"
    /\ approvalsMu = Free
    /\ \E t \in PauseDefaultTypes :
          \/ /\ ch[e] # <<>>
             /\ Issue(e, "approved", None, ch[e][1], applyApprovalResult(ch[e], t))
          \/ Issue(e, "timeout", t, EmptyRewrite, applyApprovalResult(<<>>, t))
    /\ approvals' = approvals \ {e}
    /\ ch' = [ch EXCEPT ![e] = <<>>]
    /\ pc' = [pc EXCEPT ![e] = "done"]
    /\ UNCHANGED <<zvars, xvars, avars, svars, pool, pendingNil, queue, totalSubmit, totalDrop, nextEv,
                   cpc, approvalsMu, pending, events, apc>>

\* ---------------------------------------------------------------- handle
\* Manager.handle from its entry to its terminal call (or into applyPause): the
\* send of "intercepted", decide, the drop / delay / deadline checks and the
\* action's apply call.  What the rule engine returns, the random draw and the
\* elapsed time are inputs.
handle(e) ==
    /\ pc[e] = "run"
    /\ events < EventCap
    /\ events' = events + 1
    /\ \/ \* res = nil, res.Action = nil, or an action with no field set
          /\ Issue(e, "plain", None, EmptyRewrite, applyContinue)
          /\ pc' = [pc EXCEPT ![e] = "done"]
          /\ UNCHANGED <<approvals, approvalsMu, ch, pending>>
       \/ \* rand.Float64() < a.DropRate, or elapsed > to after the delay
          /\ Issue(e, "degraded", None, EmptyRewrite, applyContinue)
          /\ pc' = [pc EXCEPT ![e] = "emit"]
          /\ UNCHANGED <<approvals, approvalsMu, ch, pending>>
       \/ \* a.Pause # nil
          /\ approvalsMu = Free
          /\ \E t \in PauseDefaultTypes : applyPause(e, t)
       \/ \* a.Fail # nil
          /\ Issue(e, "failed", None, EmptyRewrite, applyFail)
          /\ pc' = [pc EXCEPT ![e] = "emit"]
          /\ UNCHANGED <<approvals, approvalsMu, ch, pending>>
       \/ \* a.Respond # nil
          /\ Issue(e, "fulfilled", None, EmptyRewrite, applyRespond)
          /\ pc' = [pc EXCEPT ![e] = "emit"]
          /\ UNCHANGED <<approvals, approvalsMu, ch, pending>>
       \/ \* a.Rewrite # nil
          /\ \E r \in Rewrites : Issue(e, "mutated", None, EmptyRewrite, applyRewrite(r))
          /\ pc' = [pc EXCEPT ![e] = "emit"]
          /\ UNCHANGED <<approvals, approvalsMu, ch, pending>>
    /\ UNCHANGED <<zvars, xvars, avars, svars, pool, pendingNil, queue, totalSubmit, totalDrop, nextEv,
                   cpc, apc>>

\* handle's send of its "degraded", "failed", "fulfilled" or "mutated" event
\* after the terminal call, then its return.
handleEmit(e) ==
    /\ pc[e] = "emit"
    /\ events < EventCap
    /\ events' = events + 1
    /\ pc' = [pc EXCEPT ![e] = "done"]
    /\ last' = NoCall
    /\ UNCHANGED <<zvars, xvars, avars, svars, pool, pendingNil, queue, totalSubmit, totalDrop, nextEv,
                   cpc, ncalls, approvals, approvalsMu, ch, pending, apc>>

\* --------------------------------------------------------------- Approve
\* Approve(id, mutations) up to its select: lock, map lookup, unlock.  An id
\* that is not in the map returns here ("absent").
ApproveLookup_Mut(id) ==
    /\ apc.pc # "deposit"
    /\ approvalsMu = Free
    /\ approvalsMu' = IF id \in approvals THEN "approve" ELSE Free
    /\ apc' = IF id \in approvals THEN [pc |-> "deposit", id |-> id] ELSE Absent
    /\ last' = NoCall
    /\ UNCHANGED <<zvars, xvars, avars, svars, pool, pendingNil, queue, totalSubmit, totalDrop, nextEv,
                   cpc, pc, ncalls, approvals, ch, pending, events>>

ApproveLookup(id) ==
    /\ apc.pc # "deposit"
    /\ approvalsMu = Free
    /\ approvalsMu' = Free
    /\ apc' = IF id \in approvals THEN [pc |-> "deposit", id |-> id] ELSE Absent
    /\ last' = NoCall
    /\ UNCHANGED <<zvars, xvars, avars, svars, pool, pendingNil, queue, totalSubmit, totalDrop, nextEv,
                   cpc, pc, ncalls, approvals, ch, pending, events>>

\* Approve's select: the rewrite goes into the one-slot channel the lookup
\* found, or is dropped when the slot is taken.  The rewrite is Approve's
\* argument; nothing reads it before this point, so it is drawn here.  A
\* channel whose worker has returned is garbage: a deposit into it is never
\* read and leaves no trace.
ApproveDeposit(mut) ==
    /\ apc.pc = "deposit"
    /\ ch' = IF ch[apc.id] = <<>> /\ pc[apc.id] = "wait"
             THEN [ch EXCEPT ![apc.id] = <<mut>>]
             ELSE ch
    /\ apc' = Idle
    /\ last' = NoCall
    /\ UNCHANGED <<zvars, xvars, avars, svars, pool, pendingNil, queue, totalSubmit, totalDrop, nextEv,
                   cpc, pc, ncalls, approvals, approvalsMu, pending, events>>

\* ----------------------------------------------------- external consumers
\* The reader of the event channel takes one event.
recvEvent ==
    /\ events > 0
    /\ events' = events - 1
    /\ last' = NoCall
    /\ UNCHANGED <<zvars, xvars, avars, svars, pool, pendingNil, queue, totalSubmit, totalDrop, nextEv,
                   cpc, pc, ncalls, approvals, approvalsMu, ch, pending, apc>>

\* The reader of the pending channel takes one pending item.
recvPending ==
    /\ pending > 0
    /\ pending' = pending - 1
    /\ last' = NoCall
    /\ UNCHANGED <<zvars, xvars, avars, svars, pool, pendingNil, queue, totalSubmit, totalDrop, nextEv,
                   cpc, pc, ncalls, approvals, approvalsMu, ch, events, apc>>

\* ------------------------------------------------------------------ Next
Next ==
    \/ \E e \in Events : dispatchPaused(e)
    \/ \E e \in Events : degradeAndContinue(e)
    \/ worker
    \/ \E e \in Events : handle(e)
    \/ \E e \in Events : handleEmit(e)
    \/ \E e \in Events : waitForApproval(e)
    \/ \E id \in Events \cup {NoId} : ApproveLookup(id)
    \/ \E mut \in Rewrites : ApproveDeposit(mut)
    \/ recvEvent
    \/ recvPending

Spec == Init /\ [][Next]_vars

\* The goroutines of the program are scheduled: a worker, a handler or the
\* consumer that can take its next step eventually takes it, and a running timer
\* fires.  Nothing obliges the readers of the event and pending channels, the
\* caller of Approve or the browser to act.
FairSpec ==
    /\ Spec
    /\ WF_vars(worker)
    /\ \A e \in Events : /\ WF_vars(handle(e))
                         /\ WF_vars(handleEmit(e))
                         /\ WF_vars(waitForApproval(e))
                         /\ WF_vars(degradeAndContinue(e))

\* ================================================================ claims
Continue == [kind |-> "continue", mutated |-> FALSE]

\* The default action a pause rule declares, as the terminal call it stands for.
DeclaredDefault(t) ==
    IF t = "fulfill" THEN [kind |-> "fulfill", mutated |-> FALSE]
    ELSE IF t = "fail" THEN [kind |-> "fail", mutated |-> FALSE]
    ELSE Continue

\* The safety half of C1, which the code keeps: no paused event ever has two
\* terminal calls, an event whose processing has passed its apply call has one,
\* and an event still queued, entering handle or waiting for approval has none.
AtMostOneTerminalCall ==
    \A e \in Events :
        /\ ncalls[e] <= 1
        /\ pc[e] \in {"emit", "degrade", "done"} => ncalls[e] = 1
        /\ pc[e] \in {"new", "queued", "run", "wait"} => ncalls[e] = 0

\* C1: every paused event handed to dispatchPaused gets exactly one terminal
\* call (continue, fulfill or fail), whichever path processes it: never two, and
\* never zero, so an event that was dispatched eventually has its call.
ExactlyOneTerminalCall ==
    /\ [](\A e \in Events : ncalls[e] <= 1)
    /\ \A e \in Events : (pc[e] # "new") ~> (ncalls[e] = 1)

\* C2: the handler never blocks on the event channel: a handler that stands at
\* one of its event emissions can take that step whatever the channel holds.
HandlerNeverBlocksOnEvents ==
    \A e \in Events :
        /\ pc[e] = "run" => ENABLED handle(e)
        /\ pc[e] = "emit" => ENABLED handleEmit(e)

\* C3: every approval id applyPause registered is unregistered on every exit
\* path, so with no applyPause in flight the approvals map is empty.
ApprovalsEmptyAtQuiescence ==
    (\A e \in Events : pc[e] # "wait") => approvals = {}

\* C4: when a pause action fires and the pending channel is full, the handler
\* neither blocks nor waits for approval: in that same step it issues the rule's
\* declared default (fulfill, fail or continue) as the event's terminal call and
\* returns, and nothing is added to the pending channel.
OverflowTakesDefault ==
    [][\A e \in Events :
          (/\ pc[e] = "run"
           /\ e \in approvals'
           /\ ~pendingNil
           /\ pending = PendingCap)
          => (/\ pc'[e] = "done"
              /\ ncalls'[e] = 1
              /\ last'.path = "overflow"
              /\ last'.def \in PauseDefaultTypes
              /\ last'.call = DeclaredDefault(last'.def)
              /\ pending' = pending)]_vars

OverflowTookFail ==
    /\ last.path = "overflow"
    /\ last.def = "fail"
    /\ last.call.kind = "fail"
    /\ pending = PendingCap
    /\ \E e \in Events : pc[e] = "done" /\ e \in approvals

\* C5: a worker waiting for approval is always released: whatever else has
\* happened, the step that ends its wait is possible (the timer fires without
\* any deposit); a wait that ends with nothing deposited issues the rule's
\* declared default as the one terminal call; and every wait ends.
WaitReleasedByTimeout ==
    /\ [](\A e \in Events : pc[e] = "wait" => ENABLED waitForApproval(e))
    /\ [][\A e \in Events :
             (pc[e] = "wait" /\ pc'[e] = "done" /\ ch[e] = <<>>)
             => (/\ last'.path = "timeout"
                 /\ ncalls'[e] = 1
                 /\ last'.def \in PauseDefaultTypes
                 /\ last'.call = DeclaredDefault(last'.def))]_vars
    /\ \A e \in Events : (pc[e] = "wait") ~> (pc[e] = "done")

TimedOutToFulfill ==
    /\ last.path = "timeout"
    /\ last.def = "fulfill"
    /\ last.call.kind = "fulfill"
    /\ \E e \in Events : pc[e] = "done" /\ ch[e] = <<>> /\ e \notin approvals

\* C6: a pause approved with a rewrite that sets no url, method, headers,
\* query, cookies or body ends in the terminal call of a plain continue:
\* continue, carrying no change.
NoopApprovalIsContinue ==
    (/\ last.path = "approved"
     /\ ~last.mut.url /\ ~last.mut.method /\ ~last.mut.body
     /\ last.mut.headers = 0 /\ last.mut.query = 0 /\ last.mut.cookies = 0)
    => last.call = Continue

ApprovedWithNoop ==
    /\ last.path = "approved"
    /\ last.mut = EmptyRewrite
    /\ \E e \in Events : pc[e] = "done" /\ e \notin approvals

\* C7: Approve for an id that is not registered changes nothing and issues no
\* call; Approve never blocks, a deposit into a slot that is taken is dropped;
\* and the approvals mutex is free while Approve deposits and while a worker
\* waits.
StaleApproveIsNoop ==
    /\ [][\A id \in Events \cup {NoId} :
             (ApproveLookup(id) /\ id \notin approvals)
             => (/\ apc'.pc = "absent"
                 /\ last' = NoCall
                 /\ UNCHANGED <<zvars, xvars, avars, svars, pool, pendingNil, queue, totalSubmit,
                                totalDrop, nextEv, cpc, pc, ncalls, approvals,
                                approvalsMu, ch, pending, events>>)]_vars
    /\ [][(apc.pc = "deposit" /\ apc'.pc # "deposit" /\ ch[apc.id] # <<>>)
             => (ch' = ch /\ ncalls' = ncalls)]_vars
    /\ [](apc.pc = "deposit" => ENABLED (\E mut \in Rewrites : ApproveDeposit(mut)))
    /\ [](apc.pc # "deposit" => ENABLED ApproveLookup(NoId))
    /\ []((apc.pc = "deposit" \/ \E e \in Events : pc[e] = "wait")
             => approvalsMu = Free)

StaleApproveSeen ==
    /\ apc = Absent
    /\ \E e \in Events : pc[e] = "done" /\ ncalls[e] = 1 /\ e \notin approvals
    /\ \E e \in Events : pc[e] = "wait"

\* Accepted tasks that have finished: the events that are done, less the
\* rejected ones among them.
Completed ==
    Cardinality({e \in Events : pc[e] = "done"})
        - (totalDrop - Cardinality({e \in Events : pc[e] = "degrade"}))

\* C8 as stated: with a pool, the tasks running at once never exceed the
\* configured concurrency, and submitted - dropped <= concurrency + capacity.
PoolCountersBounded ==
    pool => /\ Running <= Concurrency
            /\ totalSubmit - totalDrop <= Concurrency + QueueCap

\* C8 as amended: with a pool, the tasks running at once never exceed the
\* configured concurrency, and the accepted tasks that have not finished
\* (submitted - dropped - completed, the queued and the running ones) never
\* exceed concurrency + capacity.
PoolInFlightBounded ==
    pool => /\ Running <= Concurrency
            /\ Len(queue) <= QueueCap
            /\ totalSubmit - totalDrop - Completed = Len(queue) + Running
            /\ totalSubmit - totalDrop - Completed <= Concurrency + QueueCap

PoolFullAfterMoreAccepted ==
    /\ pool
    /\ Running = Concurrency
    /\ Len(queue) = QueueCap
    /\ totalSubmit - totalDrop > Concurrency + QueueCap

\* C9: submit never blocks: the consumer's dispatch is possible whatever the
\* queue holds; a task offered while the queue has a free slot is accepted
\* (also the one that fills the queue to its capacity), a task offered to a full
\* queue is rejected, counted as dropped and leaves the queue as it was.
SubmitNonBlocking ==
    /\ []((pool /\ cpc = "recv" /\ nextEv \in Events)
             => ENABLED dispatchPaused(nextEv))
    /\ [](pool => Len(queue) <= QueueCap)
    /\ [][\A e \in Events :
             (pool /\ cpc = "recv" /\ nextEv = e /\ nextEv' = e + 1)
             => /\ totalSubmit' = totalSubmit + 1
                /\ IF Len(queue) < QueueCap
                   THEN /\ queue' = Append(queue, e)
                        /\ totalDrop' = totalDrop
                        /\ pc'[e] = "queued"
                   ELSE /\ queue' = queue
                        /\ totalDrop' = totalDrop + 1
                        /\ pc'[e] = "degrade"]_vars

RejectedAtCapacityPlusOne ==
    /\ pool
    /\ Len(queue) = QueueCap
    /\ totalDrop = 1
    /\ totalSubmit = Concurrency + QueueCap + 1
    /\ last.path = "rejected"
    /\ cpc = "degrade"

\* C10: dispatch never blocks the consumer: wherever the consumer stands, in
\* dispatchPaused or in the degradation of a rejected event, it can take its
\* next step and go on to the next paused event, whatever the pool, the event
\* channel and the running handlers do.
ConsumerNeverBlocked ==
    /\ (cpc = "recv" /\ nextEv \in Events) => ENABLED dispatchPaused(nextEv)
    /\ cpc = "degrade" => \E e \in Events : ENABLED degradeAndContinue(e)

\* =========================================================================
\* The rule executor (package executor): one Executor is built for one paused
\* event and runs the actions of the rules the engine matched.
\*
\* Strings are tokens.  A *string or *int field is Nil or its value; a body is
\* a sequence of tokens (concatenation is \o), and a *string holding a body is
\* <<>> for nil or <<body>>.  A map[string]string is a function over the names
\* the model uses, Nil where the map has no entry.  Base64 encodings and the
\* form-field actions are left out: every action uses the default encoding.
\* ------------------------------------------------------------------ bounds
MaxRules == 3       \* matched rules handed to one execution
MaxActions == 2     \* actions of one rule
MaxTotal == 3       \* actions of all matched rules together

Nil == "nil"
NotString == "notstring"    \* an action.Value that is not a string
Vals == {"v1", "v2"}
HeaderNames == {"x", "ETag", "etag", "Cookie", "cookie"}
QueryNames == {"q"}
CookieNames == {"c"}
StatusCodes == {204, 403}
DefaultStatus == 200

NoMap(S) == [n \in S |-> Nil]
MapLen(m) == Cardinality({n \in DOMAIN m : m[n] # Nil})
MapPut(m, n, v) == [m EXCEPT ![n] = v]
\* for k, v := range src { m[k] = v }
MapPutAll(m, src) == [n \in DOMAIN m |-> IF src[n] # Nil THEN src[n] ELSE m[n]]

\* strings.EqualFold on the header names of the model.
Lower(n) ==
    CASE n = "ETag" -> "etag"
      [] n = "Cookie" -> "cookie"
      [] OTHER -> n
EqualFold(a, b) == Lower(a) = Lower(b)

\* delete(headers, name) followed by the EqualFold loop.
DeleteFold(m, name) == [n \in DOMAIN m |-> IF EqualFold(n, name) THEN Nil ELSE m[n]]

RECURSIVE DeleteAllFold(_, _)
DeleteAllFold(m, names) ==
    IF names = <<>> THEN m
    ELSE DeleteAllFold(DeleteFold(m, Head(names)), Tail(names))

RECURSIVE DeleteAll(_, _)
DeleteAll(m, names) ==
    IF names = <<>> THEN m
    ELSE DeleteAll([m EXCEPT ![Head(names)] = Nil], Tail(names))

\* toHeaderEntries: the entries of a map, in no particular order.
toHeaderEntries(m) == {<<n, m[n]>> : n \in {k \in DOMAIN m : m[k] # Nil}}

\* ------------------------------------------------------------- mutations
RequestMutation ==
    [url |-> Nil, method |-> Nil,
     headers |-> NoMap(HeaderNames), removeHeaders |-> <<>>,
     query |-> NoMap(QueryNames), removeQuery |-> <<>>,
     cookies |-> NoMap(CookieNames), removeCookies |-> <<>>,
     body |-> <<>>]

ResponseMutation ==
    [statusCode |-> 0, headers |-> NoMap(HeaderNames), removeHeaders |-> <<>>,
     body |-> <<>>]

\* RequestMutation.Merge with the URL overwrite left out.
RequestMerge_Mut(m, src) ==
    [url |-> m.url,
     method |-> IF src.method # Nil THEN src.method ELSE m.method,
     headers |-> MapPutAll(m.headers, src.headers),
     removeHeaders |-> m.removeHeaders \o src.removeHeaders,
     query |-> MapPutAll(m.query, src.query),
     removeQuery |-> m.removeQuery \o src.removeQuery,
     cookies |-> MapPutAll(m.cookies, src.cookies),
     removeCookies |-> m.removeCookies \o src.removeCookies,
     body |-> IF src.body # <<>> THEN src.body ELSE m.body]

RequestMerge(m, src) ==
    [url |-> IF src.url # Nil THEN src.url ELSE m.url,
     method |-> IF src.method # Nil THEN src.method ELSE m.method,
     headers |-> MapPutAll(m.headers, src.headers),
     removeHeaders |-> m.removeHeaders \o src.removeHeaders,
     query |-> MapPutAll(m.query, src.query),
     removeQuery |-> m.removeQuery \o src.removeQuery,
     cookies |-> MapPutAll(m.cookies, src.cookies),
     removeCookies |-> m.removeCookies \o src.removeCookies,
     body |-> IF src.body # <<>> THEN src.body ELSE m.body]

ResponseMerge(m, src) ==
    [statusCode |-> IF src.statusCode # 0 THEN src.statusCode ELSE m.statusCode,
     headers |-> MapPutAll(m.headers, src.headers),
     removeHeaders |-> m.removeHeaders \o src.removeHeaders,
     body |-> IF src.body # <<>> THEN src.body ELSE m.body]

\* --------------------------------------------------------------- actions
\* rulespec.Action: Type, Name, Value (a string, NotString, or the number num),
\* Search / Replace (replace-body-text replaces the token search by the token
\* value), Patches, and for block StatusCode (num), Headers and Body.
Action(type, name, value) ==
    [type |-> type, name |-> name, value |-> value, num |-> 0,
     search |-> Nil, all |-> FALSE, patches |-> <<>>,
     headers |-> NoMap(HeaderNames), body |-> <<>>]

\* strings.Replace(body, search, replace, 1) and strings.ReplaceAll on tokens.
RECURSIVE Replace(_, _, _, _)
Replace(body, search, new, all) ==
    IF body = <<>> THEN <<>>
    ELSE IF Head(body) = search
         THEN <<new>> \o (IF all THEN Replace(Tail(body), search, new, all)
                          ELSE Tail(body))
         ELSE <<Head(body)>> \o Replace(Tail(body), search, new, all)

\* A patch op is what sjson makes of it: "ok" (the document changes: the token
\* "p" is added), "fail" (sjson returns an error), or "skip" (an empty path or
\* an op that is none of add, replace, remove).
RECURSIVE PatchesFrom(_, _, _)
PatchesFrom(body, currentBody, patches) ==
    IF patches = <<>> THEN [body |-> currentBody, err |-> FALSE]
    ELSE CASE Head(patches) = "ok" ->
                PatchesFrom(body, currentBody \o <<"p">>, Tail(patches))
           [] Head(patches) = "fail" -> [body |-> body, err |-> TRUE]
           [] OTHER -> PatchesFrom(body, currentBody, Tail(patches))

\* The variant that returns the partly patched document on an error.
applyJSONPatches_Mut(body, patches) ==
    IF body = <<>> \/ Len(patches) = 0
    THEN [body |-> body, err |-> FALSE]
    ELSE LET r == PatchesFrom(body, body, patches)
         IN  IF r.err THEN [body |-> body \o <<"p">>, err |-> FALSE] ELSE r

applyJSONPatches(body, patches) ==
    IF body = <<>> \/ Len(patches) = 0
    THEN [body |-> body, err |-> FALSE]
    ELSE PatchesFrom(body, body, patches)

\* ------------------------------------------------- ExecuteRequestActions
\* The state of the loop over one rule's actions: the rule's mutation, the
\* local currentBody, and e.block (<<>> for nil).
BlockResponse(a) == [statusCode |-> a.num, headers |-> a.headers, body |-> a.body]

RequestAction(a, st) ==
    CASE a.type = "set-url" ->
            IF a.value # NotString THEN [st EXCEPT !.mut.url = a.value] ELSE st
      [] a.type = "set-method" ->
            IF a.value # NotString THEN [st EXCEPT !.mut.method = a.value] ELSE st
      [] a.type = "set-header" ->
            IF a.value # NotString
            THEN [st EXCEPT !.mut.headers = MapPut(@, a.name, a.value)] ELSE st
      [] a.type = "remove-header" ->
            [st EXCEPT !.mut.removeHeaders = Append(@, a.name)]
      [] a.type = "set-query-param" ->
            IF a.value # NotString
            THEN [st EXCEPT !.mut.query = MapPut(@, a.name, a.value)] ELSE st
      [] a.type = "remove-query-param" ->
            [st EXCEPT !.mut.removeQuery = Append(@, a.name)]
      [] a.type = "set-cookie" ->
            IF a.value # NotString
            THEN [st EXCEPT !.mut.cookies = MapPut(@, a.name, a.value)] ELSE st
      [] a.type = "remove-cookie" ->
            [st EXCEPT !.mut.removeCookies = Append(@, a.name)]
      [] a.type = "set-body" ->
            IF a.value # NotString
            THEN [st EXCEPT !.cur = <<a.value>>, !.mut.body = <<<<a.value>>>>]
            ELSE st
      [] a.type = "append-body" ->
            IF a.value # NotString
            THEN [st EXCEPT !.cur = @ \o <<a.value>>,
                            !.mut.body = <<st.cur \o <<a.value>>>>]
            ELSE st
      [] a.type = "replace-body-text" ->
            LET b == Replace(st.cur, a.search, a.value, a.all)
            IN  [st EXCEPT !.cur = b, !.mut.body = <<b>>]
      [] a.type = "patch-body-json" ->
            LET r == applyJSONPatches(st.cur, a.patches)
            IN  IF ~r.err THEN [st EXCEPT !.cur = r.body, !.mut.body = <<r.body>>]
                ELSE st
      [] OTHER -> st

\* The loop of ExecuteRequestActions from action i on; block returns at once.
RECURSIVE RequestActionsFrom(_, _, _)
RequestActionsFrom(actions, i, st) ==
    IF i > Len(actions) THEN st
    ELSE IF actions[i].type = "block"
         THEN [st EXCEPT !.block = <<BlockResponse(actions[i])>>]
         ELSE RequestActionsFrom(actions, i + 1, RequestAction(actions[i], st))

\* ev is the paused event; block is e.block when the call starts.  Every call
\* starts from the request body of the event (protocol.GetRequestBody(e.ev)).
ExecuteRequestActions(actions, ev, block) ==
    RequestActionsFrom(actions, 1,
                       [mut |-> RequestMutation, cur |-> ev.body, block |-> block])

\* The loop of ExecuteRequest without its break: a block is recorded and the
\* rules after it are still run and merged.
RECURSIVE RequestRulesFrom_Mut(_, _, _, _)
RequestRulesFrom_Mut(matchedRules, i, ev, st) ==
    IF i > Len(matchedRules) THEN st
    ELSE IF matchedRules[i].stage # "request"
         THEN RequestRulesFrom_Mut(matchedRules, i + 1, ev, st)
         ELSE LET r == ExecuteRequestActions(matchedRules[i].actions, ev, st.block)
              IN  RequestRulesFrom_Mut(matchedRules, i + 1, ev,
                      [reqMut |-> RequestMerge(st.reqMut, r.mut), block |-> r.block])

\* --------------------------------------------------------- ExecuteRequest
\* The loop over the matched rules from rule i on: st is e.reqMut and e.block.
RECURSIVE RequestRulesFrom(_, _, _, _)
RequestRulesFrom(matchedRules, i, ev, st) ==
    IF i > Len(matchedRules) THEN st
    ELSE IF matchedRules[i].stage # "request"
         THEN RequestRulesFrom(matchedRules, i + 1, ev, st)
         ELSE LET r == ExecuteRequestActions(matchedRules[i].actions, ev, st.block)
              IN  IF r.block # <<>>
                  THEN [st EXCEPT !.block = r.block]
                  ELSE RequestRulesFrom(matchedRules, i + 1, ev,
                                        [st EXCEPT !.reqMut = RequestMerge(@, r.mut)])

\* HasRequestMutation counting an empty RemoveHeaders list as a change.
HasRequestMutation_Mut(m, block) ==
    IF block # <<>> THEN TRUE
    ELSE \/ m.url # Nil \/ m.method # Nil
         \/ MapLen(m.headers) > 0 \/ MapLen(m.query) > 0 \/ MapLen(m.cookies) > 0
         \/ Len(m.removeHeaders) >= 0 \/ Len(m.removeQuery) > 0
         \/ Len(m.removeCookies) > 0
         \/ m.body # <<>>

HasRequestMutation(m, block) ==
    IF block # <<>> THEN TRUE
    ELSE \/ m.url # Nil \/ m.method # Nil
         \/ MapLen(m.headers) > 0 \/ MapLen(m.query) > 0 \/ MapLen(m.cookies) > 0
         \/ Len(m.removeHeaders) > 0 \/ Len(m.removeQuery) > 0
         \/ Len(m.removeCookies) > 0
         \/ m.body # <<>>

\* A URL is its part before the query and its query parameters; url.Parse of a
\* set-url token finds no query.
ParseURL(v) == [base |-> v, query |-> NoMap(QueryNames)]

buildFinalURL(originalURL, mut) ==
    IF mut.url = Nil /\ MapLen(mut.query) = 0 /\ Len(mut.removeQuery) = 0 THEN <<>>
    ELSE LET baseURL == IF mut.url # Nil THEN ParseURL(mut.url) ELSE originalURL
         IN  IF MapLen(mut.query) = 0 /\ Len(mut.removeQuery) = 0 THEN <<baseURL>>
             ELSE <<[baseURL EXCEPT
                       !.query = MapPutAll(DeleteAll(@, mut.removeQuery), mut.query)]>>

\* protocol.ParseCookie and the k+"="+v join, for the one cookie name of the
\* model: a cookie header value is "c=v1", "c=v2" or something without cookies.
ParseCookie(str) ==
    [n \in CookieNames |-> CASE str = "c=v1" -> "v1" [] str = "c=v2" -> "v2"
                             [] OTHER -> Nil]
JoinCookie(cookies) ==
    CASE cookies["c"] = "v1" -> "c=v1" [] cookies["c"] = "v2" -> "c=v2"
      [] OTHER -> Nil

buildFinalHeaders(ev, mut) ==
    LET h1 == MapPutAll(DeleteAllFold(ev.headers, mut.removeHeaders), mut.headers)
    IN  toHeaderEntries(
          IF MapLen(mut.cookies) > 0 \/ Len(mut.removeCookies) > 0
          THEN LET names == {k \in DOMAIN h1 : h1[k] # Nil /\ EqualFold(k, "cookie")}
                   cookieStr == IF names = {} THEN Nil
                                ELSE h1[CHOOSE k \in names : TRUE]
                   cookies == MapPutAll(DeleteAll(ParseCookie(cookieStr),
                                                  mut.removeCookies), mut.cookies)
               IN  IF MapLen(cookies) > 0
                   THEN [h1 EXCEPT !["Cookie"] = JoinCookie(cookies)]
                   ELSE [h1 EXCEPT !["Cookie"] = Nil, !["cookie"] = Nil]
          ELSE h1)

\* The two results of BuildRequestArgs: <<>> is nil, and so is an optional
\* field that was not set.
BuildRequestArgs(ev, mut, block) ==
    IF block # <<>>
    THEN [continueArgs |-> <<>>,
          fulfillArgs |-> <<[responseCode |-> block[1].statusCode,
                             responseHeaders |->
                                IF MapLen(block[1].headers) > 0
                                THEN <<toHeaderEntries(block[1].headers)>> ELSE <<>>,
                             body |-> IF Len(block[1].body) > 0
                                      THEN <<block[1].body>> ELSE <<>>]>>]
    ELSE LET headers == buildFinalHeaders(ev, mut)
         IN  [continueArgs |-> <<[url |-> buildFinalURL(ev.url, mut),
                                  method |-> mut.method,
                                  headers |-> IF Cardinality(headers) > 0
                                              THEN <<headers>> ELSE <<>>,
                                  postData |-> mut.body]>>,
              fulfillArgs |-> <<>>]

\* The ExecutionResult, with the executor's fields it was built from.
ExecuteRequest(matchedRules, ev) ==
    LET st == RequestRulesFrom(matchedRules, 1, ev,
                               [reqMut |-> RequestMutation, block |-> <<>>])
        args == BuildRequestArgs(ev, st.reqMut, st.block)
    IN  [stage |-> "request",
         isBlocked |-> st.block # <<>>,
         isModified |-> HasRequestMutation(st.reqMut, st.block),
         continueArgs |-> args.continueArgs,
         fulfillArgs |-> args.fulfillArgs,
         continueRes |-> <<>>,
         mut |-> st.reqMut,
         block |-> st.block]

\* ------------------------------------------------ ExecuteResponseActions
ResponseAction(a, st) ==
    CASE a.type = "set-status" ->
            IF a.num # 0 THEN [st EXCEPT !.mut.statusCode = a.num] ELSE st
      [] a.type = "set-header" ->
            IF a.value # NotString
            THEN [st EXCEPT !.mut.headers = MapPut(@, a.name, a.value)] ELSE st
      [] a.type = "remove-header" ->
            [st EXCEPT !.mut.removeHeaders = Append(@, a.name)]
      [] a.type = "set-body" ->
            IF a.value # NotString
            THEN [st EXCEPT !.cur = <<a.value>>, !.mut.body = <<<<a.value>>>>]
            ELSE st
      [] a.type = "append-body" ->
            IF a.value # NotString
            THEN [st EXCEPT !.cur = @ \o <<a.value>>,
                            !.mut.body = <<st.cur \o <<a.value>>>>]
            ELSE st
      [] a.type = "replace-body-text" ->
            LET b == Replace(st.cur, a.search, a.value, a.all)
            IN  [st EXCEPT !.cur = b, !.mut.body = <<b>>]
      [] a.type = "patch-body-json" ->
            LET r == applyJSONPatches(st.cur, a.patches)
            IN  IF ~r.err THEN [st EXCEPT !.cur = r.body, !.mut.body = <<r.body>>]
                ELSE st
      [] OTHER -> st

RECURSIVE ResponseActionsFrom(_, _, _)
ResponseActionsFrom(actions, i, st) ==
    IF i > Len(actions) THEN st
    ELSE ResponseActionsFrom(actions, i + 1, ResponseAction(actions[i], st))

ExecuteResponseActions(actions, responseBody) ==
    ResponseActionsFrom(actions, 1, [mut |-> ResponseMutation, cur |-> responseBody]).mut

\* -------------------------------------------------------- ExecuteResponse
\* The loop over the matched rules from rule i on: st is e.resMut and the
\* local currentBody.
RECURSIVE ResponseRulesFrom(_, _, _)
ResponseRulesFrom(matchedRules, i, st) ==
    IF i > Len(matchedRules) THEN st
    ELSE IF matchedRules[i].stage # "response"
         THEN ResponseRulesFrom(matchedRules, i + 1, st)
         ELSE LET mut == ExecuteResponseActions(matchedRules[i].actions, st.cur)
              IN  ResponseRulesFrom(matchedRules, i + 1,
                      [resMut |-> ResponseMerge(st.resMut, mut),
                       cur |-> IF mut.body # <<>> THEN mut.body[1] ELSE st.cur])

HasResponseMutation(m) ==
    \/ m.statusCode # 0 \/ MapLen(m.headers) > 0 \/ Len(m.removeHeaders) > 0
    \/ m.body # <<>>

\* headers[h.Name] = h.Value over the entries of e.ev.ResponseHeaders in order.
RECURSIVE HeaderMap(_, _)
HeaderMap(m, entries) ==
    IF entries = <<>> THEN m
    ELSE HeaderMap(MapPut(m, Head(entries)[1], Head(entries)[2]), Tail(entries))

headersToDrop == <<"content-encoding", "content-length", "content-md5", "etag">>

buildFinalResponseHeaders(ev, mut) ==
    LET h0 == HeaderMap(NoMap(HeaderNames), ev.responseHeaders)
        h1 == DeleteAllFold(h0, mut.removeHeaders)
        h2 == IF mut.body # <<>> THEN DeleteAllFold(h1, headersToDrop) ELSE h1
    IN  toHeaderEntries(MapPutAll(h2, mut.headers))

\* ev.status is e.ev.ResponseStatusCode, 0 for nil.
ResponseCode(ev, mut) ==
    IF mut.statusCode # 0 THEN mut.statusCode
    ELSE IF ev.status # 0 THEN ev.status ELSE DefaultStatus

\* BuildResponseArgs that fulfills only when the status is overridden as well.
BuildResponseArgs_Mut(ev, mut) ==
    IF mut.body # <<>> /\ mut.statusCode # 0
    THEN [continueRes |-> <<>>,
          fulfillArgs |-> <<[responseCode |-> ResponseCode(ev, mut),
                             responseHeaders |-> <<buildFinalResponseHeaders(ev, mut)>>,
                             body |-> mut.body]>>]
    ELSE [continueRes |-> <<[responseCode |-> 0, responseHeaders |-> <<>>]>>,
          fulfillArgs |-> <<>>]

BuildResponseArgs(ev, mut) ==
    IF mut.body # <<>>
    THEN [continueRes |-> <<>>,
          fulfillArgs |-> <<[responseCode |-> ResponseCode(ev, mut),
                             responseHeaders |-> <<buildFinalResponseHeaders(ev, mut)>>,
                             body |-> mut.body]>>]
    ELSE LET hasMutation == \/ mut.statusCode # 0 \/ MapLen(mut.headers) > 0
                            \/ Len(mut.removeHeaders) > 0
         IN  [continueRes |->
                 <<IF hasMutation
                   THEN [responseCode |-> ResponseCode(ev, mut),
                         responseHeaders |-> <<buildFinalResponseHeaders(ev, mut)>>]
                   ELSE [responseCode |-> 0, responseHeaders |-> <<>>]>>,
              fulfillArgs |-> <<>>]

ExecuteResponse(matchedRules, ev) ==
    LET st == ResponseRulesFrom(matchedRules, 1,
                                [resMut |-> ResponseMutation, cur |-> ev.body])
        resMut == IF st.resMut.body = <<>> /\ st.cur # ev.body
                  THEN [st.resMut EXCEPT !.body = <<st.cur>>] ELSE st.resMut
        args == BuildResponseArgs(ev, resMut)
    IN  [stage |-> "response",
         isBlocked |-> FALSE,
         isModified |-> HasResponseMutation(resMut),
         continueArgs |-> <<>>,
         fulfillArgs |-> args.fulfillArgs,
         continueRes |-> args.continueRes,
         mut |-> resMut,
         block |-> <<>>]

\* ------------------------------------------------ the executions studied
\* The actions the rules of a configuration are made of.  A configuration is
\* small, so that lists of three rules can be enumerated; together the
\* configurations cover every action type of the model.
Patch(patches) == [Action("patch-body-json", Nil, Nil) EXCEPT !.patches = patches]

SetStatus(c) == [Action("set-status", Nil, Nil) EXCEPT !.num = c]

ReplaceBodyText == [Action("replace-body-text", Nil, "v2") EXCEPT !.search = "o"]

Block == [Action("block", Nil, Nil) EXCEPT !.num = 403,
                                           !.headers = MapPut(@, "x", "v1"),
                                           !.body = <<"b">>]

BareBlock == [Action("block", Nil, Nil) EXCEPT !.num = 204]

\* A configuration: the stages its rules are written for, and their actions.
Config(stages, actions) == [stages |-> stages, actions |-> actions]

MixedActions == {Action("append-body", Nil, "v1"), Action("set-body", Nil, NotString)}

RequestConfigs ==
    {Config({"request"},
            {Action("set-url", Nil, "v1"), Action("set-url", Nil, "v2"),
             Action("set-header", "x", "v1"), Action("set-header", "x", "v2"),
             Action("remove-header", "x", Nil)}),
     Config({"request"},
            {Action("set-method", Nil, "v1"),
             Action("set-query-param", "q", "v1"), Action("remove-query-param", "q", Nil),
             Action("set-cookie", "c", "v1"), Action("remove-cookie", "c", Nil)}),
     Config({"request"},
            {Action("set-body", Nil, "v1"), Action("append-body", Nil, "v1"),
             Action("append-body", Nil, "v2"), ReplaceBodyText,
             Patch(<<"ok", "fail">>)}),
     Config({"request"},
            {Block, BareBlock, Action("append-body", Nil, "v1"),
             Action("set-header", "x", "v1"), Patch(<<"ok">>)}),
     Config({"request", "response"}, MixedActions)}

ResponseConfigs ==
    {Config({"response"},
            {SetStatus(204), SetStatus(403),
             Action("set-header", "x", "v1"), Action("set-header", "x", "v2"),
             Action("remove-header", "x", Nil)}),
     Config({"response"},
            {Action("set-body", Nil, "v1"), Action("append-body", Nil, "v1"),
             Action("append-body", Nil, "v2"), ReplaceBodyText,
             Patch(<<"ok", "fail">>)}),
     Config({"response"},
            {Action("append-body", Nil, "v1"), Patch(<<"ok">>),
             Action("set-header", "ETag", "v1"), Action("remove-header", "etag", Nil),
             SetStatus(204)}),
     Config({"request", "response"}, MixedActions)}

Configs(stage) == IF stage = "request" THEN RequestConfigs ELSE ResponseConfigs

\* The rules of a configuration: a stage and one to MaxActions actions.
Rule(stage, actions) == [stage |-> stage, actions |-> actions]

Rules(cfg) ==
    {Rule(st, as) : st \in cfg.stages,
                    as \in UNION {[1..n -> cfg.actions] : n \in 1..MaxActions}}

RECURSIVE TotalActions(_)
TotalActions(rs) ==
    IF rs = <<>> THEN 0 ELSE Len(Head(rs).actions) + TotalActions(Tail(rs))

\* The paused events: a request with or without the header x, a response with
\* its header entries, which may repeat a name, and in each stage an event with
\* an empty body and no headers.
PausedEvent(stage, body, headers, responseHeaders) ==
    [stage |-> stage, body |-> body,
     url |-> [base |-> "u0", query |-> MapPut(NoMap(QueryNames), "q", "v0")],
     headers |-> headers, responseHeaders |-> responseHeaders,
     status |-> IF stage = "response" THEN 404 ELSE 0]

PausedEvents ==
    {PausedEvent("request", <<"o">>, h, <<>>) :
        h \in {NoMap(HeaderNames), MapPut(NoMap(HeaderNames), "x", "v0")}}
    \cup {PausedEvent("response", <<"o">>, NoMap(HeaderNames), rh) :
            rh \in {<<>>, <<<<"x", "v0">>, <<"ETag", "v0">>>>,
                    <<<<"x", "v0">>, <<"x", "v1">>>>}}
    \cup {PausedEvent(stage, <<>>, NoMap(HeaderNames), <<>>) :
            stage \in {"request", "response"}}

NoResult == [stage |-> None]

\* executor.New for a paused event, under one configuration; the engine has
\* matched nothing yet.
ExecInit ==
    /\ RuntimeIdle
    /\ OtherIdle
    /\ ServiceIdle
    /\ AttachIdle
    /\ eev \in PausedEvents
    /\ ecfg \in Configs(eev.stage)
    /\ eopts = 0
    /\ erules = <<>>
    /\ eres = NoResult

\* The rules the engine can still match.
Matchable ==
    IF eres = NoResult /\ Len(erules) < MaxRules
    THEN {r \in Rules(ecfg) :
            TotalActions(erules) + Len(r.actions) <= MaxTotal}
    ELSE {}

\* The engine matches one more rule.
matchRule(r) ==
    /\ erules' = Append(erules, r)
    /\ UNCHANGED <<zvars, rvars, avars, svars, eev, ecfg, eopts, eres>>

ExecuteRequestCall ==
    /\ eres = NoResult
    /\ eev.stage = "request"
    /\ eres' = ExecuteRequest(erules, eev)
    /\ UNCHANGED <<zvars, rvars, avars, svars, eev, ecfg, eopts, erules>>

ExecuteResponseCall ==
    /\ eres = NoResult
    /\ eev.stage = "response"
    /\ eres' = ExecuteResponse(erules, eev)
    /\ UNCHANGED <<zvars, rvars, avars, svars, eev, ecfg, eopts, erules>>

ExecNext ==
    \/ \E r \in Matchable : matchRule(r)
    \/ ExecuteRequestCall
    \/ ExecuteResponseCall

ExecSpec == ExecInit /\ [][ExecNext]_vars

\* =========================================================================
\* Claims about the executor (specification ExecSpec).
Executed == eres # NoResult

\* No matched rule is of the event's stage: the list is empty, or every rule
\* in it is skipped.
NothingToRun == \A i \in 1..Len(erules) : erules[i].stage # eev.stage

\* C11 as stated: with no rule to run the result is a continue that carries no
\* override at all (url, method, headers, post data; status and headers in the
\* response stage), is not blocked and has modified = false.
EmptyListNoOverrides ==
    (Executed /\ NothingToRun) =>
        /\ ~eres.isModified /\ ~eres.isBlocked /\ eres.fulfillArgs = <<>>
        /\ eres.stage = "request" =>
              eres.continueArgs =
                 <<[url |-> <<>>, method |-> Nil, headers |-> <<>>, postData |-> <<>>]>>
        /\ eres.stage = "response" =>
              eres.continueRes = <<[responseCode |-> 0, responseHeaders |-> <<>>]>>

\* C11, amended: with no rule to run the result is a continue with modified =
\* false whose url, method and post data are not overridden and whose header
\* list, supplied whenever the request has headers, is the request's own; in
\* the response stage neither status nor headers are supplied.
EmptyListIsIdentity ==
    (Executed /\ NothingToRun) =>
        /\ ~eres.isModified /\ ~eres.isBlocked /\ eres.fulfillArgs = <<>>
        /\ eres.stage = "request" =>
              /\ Len(eres.continueArgs) = 1
              /\ eres.continueArgs[1].url = <<>>
              /\ eres.continueArgs[1].method = Nil
              /\ eres.continueArgs[1].postData = <<>>
              /\ eres.continueArgs[1].headers \in {<<>>, <<toHeaderEntries(eev.headers)>>}
              /\ (eres.continueArgs[1].headers = <<>>) = (MapLen(eev.headers) = 0)
        /\ eres.stage = "response" =>
              eres.continueRes = <<[responseCode |-> 0, responseHeaders |-> <<>>]>>

\* An execution of the empty list for a request that has a header.
EmptyListExecuted ==
    /\ Executed /\ erules = <<>> /\ eres.stage = "request"
    /\ MapLen(eev.headers) > 0 /\ eres.continueArgs[1].headers # <<>>

\* The first block of a request-stage execution: the first rule of the stage
\* that has a block action, and the first block among its actions.
HasBlockAction(r) ==
    r.stage = "request" /\ \E j \in 1..Len(r.actions) : r.actions[j].type = "block"

BlockReached == \E i \in 1..Len(erules) : HasBlockAction(erules[i])

BlockRule == CHOOSE i \in 1..Len(erules) :
                /\ HasBlockAction(erules[i])
                /\ \A k \in 1..(i - 1) : ~HasBlockAction(erules[k])

BlockAt == CHOOSE j \in 1..Len(erules[BlockRule].actions) :
              /\ erules[BlockRule].actions[j].type = "block"
              /\ \A k \in 1..(j - 1) : erules[BlockRule].actions[k].type # "block"

\* The matched rules cut right after the first block.
UpToBlock ==
    Append(SubSeq(erules, 1, BlockRule - 1),
           Rule("request", SubSeq(erules[BlockRule].actions, 1, BlockAt)))

\* C12: in the request stage, once a block is reached the result is a fulfill
\* (never a continue) with that block's status code, headers and body, and
\* nothing after the block counts: the whole result is the one the rules cut
\* right after the block give, and the executor's mutation holds only what the
\* rules before the blocking rule merged.
BlockIsTerminal ==
    (Executed /\ eres.stage = "request" /\ BlockReached) =>
        LET a == erules[BlockRule].actions[BlockAt]
        IN  /\ eres.isBlocked /\ eres.isModified
            /\ eres.continueArgs = <<>>
            /\ Len(eres.fulfillArgs) = 1
            /\ eres.fulfillArgs[1].responseCode = a.num
            /\ eres.fulfillArgs[1].responseHeaders =
                  (IF MapLen(a.headers) > 0 THEN <<toHeaderEntries(a.headers)>> ELSE <<>>)
            /\ eres.fulfillArgs[1].body = (IF a.body # <<>> THEN <<a.body>> ELSE <<>>)
            /\ eres = ExecuteRequest(UpToBlock, eev)
            /\ eres.mut = ExecuteRequest(SubSeq(erules, 1, BlockRule - 1), eev).mut

\* A block met as the first action of a rule that has another action after it
\* (a second block), with another rule matched after that rule.
BlockedBeforeMore ==
    /\ Executed /\ eres.stage = "request" /\ eres.isBlocked
    /\ Len(erules) >= 2 /\ erules[1].stage = "request"
    /\ Len(erules[1].actions) = 2
    /\ erules[1].actions[1] = Block /\ erules[1].actions[2] = BareBlock
    /\ erules[2].actions[1].type = "set-header"

\* The matched rules of the event's stage, and the mutation each of them
\* produced on its own (its ExecuteRequestActions / ExecuteResponseActions
\* result), in rule order; cur is the body the next response rule starts from.
StageRules == SelectSeq(erules, LAMBDA r : r.stage = eev.stage)

RECURSIVE RuleMutationsFrom(_, _, _)
RuleMutationsFrom(rs, ev, cur) ==
    IF rs = <<>> THEN <<>>
    ELSE LET m == IF ev.stage = "request"
                  THEN ExecuteRequestActions(Head(rs).actions, ev, <<>>).mut
                  ELSE ExecuteResponseActions(Head(rs).actions, cur)
         IN  <<m>> \o RuleMutationsFrom(Tail(rs), ev,
                         IF ev.stage = "response" /\ m.body # <<>>
                         THEN m.body[1] ELSE cur)

RuleMutations == RuleMutationsFrom(StageRules, eev, eev.body)

\* The latest rule whose mutation satisfies IsSet, 0 if there is none.
Latest(ms, IsSet(_)) ==
    LET S == {k \in 1..Len(ms) : IsSet(ms[k])}
    IN  IF S = {} THEN 0 ELSE CHOOSE k \in S : \A j \in S : j <= k

RECURSIVE Flatten(_)
Flatten(seqs) == IF seqs = <<>> THEN <<>> ELSE Head(seqs) \o Flatten(Tail(seqs))

Concat(ms, Get(_)) == Flatten([k \in 1..Len(ms) |-> Get(ms[k])])

\* C13: the final mutation of an execution that was not blocked takes every
\* set-* field (url, method, status, body, each header / query / cookie name)
\* from the latest rule whose mutation sets it, leaves it unset when no rule
\* sets it, and its remove-* lists are the rules' lists concatenated in rule
\* order.
LastWriterWins ==
    (Executed /\ ~eres.isBlocked) =>
        LET ms == RuleMutations
            final == eres.mut
            kb == Latest(ms, LAMBDA m : m.body # <<>>)
        IN  /\ final.body = (IF kb = 0 THEN <<>> ELSE ms[kb].body)
            /\ final.removeHeaders = Concat(ms, LAMBDA m : m.removeHeaders)
            /\ \A n \in HeaderNames :
                  LET k == Latest(ms, LAMBDA m : m.headers[n] # Nil)
                  IN  final.headers[n] = (IF k = 0 THEN Nil ELSE ms[k].headers[n])
            /\ eres.stage = "response" =>
                  LET k == Latest(ms, LAMBDA m : m.statusCode # 0)
                  IN  final.statusCode = (IF k = 0 THEN 0 ELSE ms[k].statusCode)
            /\ eres.stage = "request" =>
                  LET ku == Latest(ms, LAMBDA m : m.url # Nil)
                      km == Latest(ms, LAMBDA m : m.method # Nil)
                  IN  /\ final.url = (IF ku = 0 THEN Nil ELSE ms[ku].url)
                      /\ final.method = (IF km = 0 THEN Nil ELSE ms[km].method)
                      /\ final.removeQuery = Concat(ms, LAMBDA m : m.removeQuery)
                      /\ final.removeCookies = Concat(ms, LAMBDA m : m.removeCookies)
                      /\ \A n \in QueryNames :
                            LET k == Latest(ms, LAMBDA m : m.query[n] # Nil)
                            IN  final.query[n] = (IF k = 0 THEN Nil ELSE ms[k].query[n])
                      /\ \A n \in CookieNames :
                            LET k == Latest(ms, LAMBDA m : m.cookies[n] # Nil)
                            IN  final.cookies[n] = (IF k = 0 THEN Nil ELSE ms[k].cookies[n])

\* Three rules: the first sets the url, the second removes a header, the third
\* sets the url to another value, which is the final one.
UrlSetTwice ==
    /\ Executed /\ eres.stage = "request" /\ Len(erules) = 3
    /\ erules[1].actions = <<Action("set-url", Nil, "v1")>>
    /\ erules[2].actions = <<Action("remove-header", "x", Nil)>>
    /\ erules[3].actions = <<Action("set-url", Nil, "v2")>>
    /\ eres.mut.url = "v2" /\ eres.mut.removeHeaders = <<"x">>

\* Executing a list of rules for an event, and merging two final mutations, in
\* the stage of the event.
Execute(rs, ev) ==
    IF ev.stage = "request" THEN ExecuteRequest(rs, ev) ELSE ExecuteResponse(rs, ev)

Merge(ev, m, src) ==
    IF ev.stage = "request" THEN RequestMerge(m, src) ELSE ResponseMerge(m, src)

\* The event as an execution left it: its body is the final body, if one was set.
After(ev, res) ==
    [ev EXCEPT !.body = IF res.mut.body # <<>> THEN res.mut.body[1] ELSE @]

\* C14: for three matched rules A, B, C of the event's stage, none of which
\* blocks, the final mutation of executing <<A, B, C>> (its body included) is
\* the final mutation of <<A>> merged with the final mutation <<B, C>> gives
\* on what A left.
CompositionAssociative ==
    (Executed /\ ~eres.isBlocked /\ Len(erules) = 3 /\ Len(StageRules) = 3) =>
        LET first == Execute(<<erules[1]>>, eev)
            rest == Execute(<<erules[2], erules[3]>>, After(eev, first))
        IN  eres.mut = Merge(eev, first.mut, rest.mut)

\* The body the result sends: the post data of the continue in the request
\* stage, the body of the fulfill in the response stage; <<>> if none is sent.
SentBody ==
    IF eres.stage = "request"
    THEN IF eres.continueArgs # <<>> THEN eres.continueArgs[1].postData ELSE <<>>
    ELSE IF eres.fulfillArgs # <<>> THEN eres.fulfillArgs[1].body ELSE <<>>

IsAppend(r) ==
    r.stage = eev.stage /\ Len(r.actions) = 1 /\ r.actions[1].type = "append-body"

\* C15: when the matched rules are A, which appends x, and then B, which appends
\* y, the final body and the body sent are original + x + y, in either stage.
AppendsAccumulate ==
    (Executed /\ Len(erules) = 2 /\ IsAppend(erules[1]) /\ IsAppend(erules[2])) =>
        LET x == erules[1].actions[1].value
            y == erules[2].actions[1].value
        IN  /\ eres.mut.body = <<eev.body \o <<x, y>>>>
            /\ SentBody = <<eev.body \o <<x, y>>>>

Banned == {headersToDrop[i] : i \in 1..Len(headersToDrop)}

\* C16: a response-stage result with a modified body is a fulfill, and no
\* header it sends is content-encoding, content-length, content-md5 or etag
\* in any letter case.
BannedHeadersDropped ==
    (Executed /\ eres.stage = "response" /\ eres.mut.body # <<>>) =>
        /\ eres.continueRes = <<>>
        /\ Len(eres.fulfillArgs) = 1
        /\ \A h \in eres.fulfillArgs[1].responseHeaders[1] : Lower(h[1]) \notin Banned

\* The header entries of the paused response, as the set toHeaderEntries is
\* compared with.
OriginalResponseHeaders == {eev.responseHeaders[i] : i \in 1..Len(eev.responseHeaders)}

HeadersChanged(m) == MapLen(m.headers) > 0 \/ Len(m.removeHeaders) > 0

\* C17: a response-stage result with an unmodified body is a continue-response
\* that supplies a status exactly when it supplies headers: only headers
\* changed - the status is the original one; only the status changed - the
\* headers are the original ones; nothing changed - neither is supplied.
StatusAndHeadersTogether ==
    (Executed /\ eres.stage = "response" /\ eres.mut.body = <<>>) =>
        /\ eres.fulfillArgs = <<>>
        /\ Len(eres.continueRes) = 1
        /\ LET r == eres.continueRes[1]
               m == eres.mut
           IN  /\ (r.responseCode # 0) <=> (r.responseHeaders # <<>>)
               /\ (m.statusCode = 0 /\ HeadersChanged(m)) =>
                     r.responseCode = eev.status
               /\ (m.statusCode # 0 /\ ~HeadersChanged(m)) =>
                     /\ r.responseCode = m.statusCode
                     /\ r.responseHeaders = <<OriginalResponseHeaders>>
               /\ (m.statusCode = 0 /\ ~HeadersChanged(m)) =>
                     r = [responseCode |-> 0, responseHeaders |-> <<>>]

\* A patch-body-json action one of whose ops fails on the body it is given.
FailsOn(a, body) ==
    a.type = "patch-body-json" /\ body # <<>>
    /\ \E i \in 1..Len(a.patches) : a.patches[i] = "fail"

\* The rules without the patch-body-json actions that fail.  In the model a
\* running body is empty only if the event's body is.
WithoutFailedPatches(rs) ==
    [k \in 1..Len(rs) |->
        [rs[k] EXCEPT !.actions = SelectSeq(@, LAMBDA a : ~FailsOn(a, eev.body))]]

\* C18: a patch-body-json action with a failing op changes nothing, whatever
\* its earlier ops did, and stops nothing: the result of the execution is the
\* result the same rules give without the failing actions.
FailedPatchChangesNothing ==
    Executed => eres = Execute(WithoutFailedPatches(erules), eev)

\* A patch whose first op succeeds and whose second fails, followed by an
\* append in the same rule and an append in the next rule, both of which took
\* effect on the unpatched body.
FailedPatchThenAppends ==
    /\ Executed /\ eres.stage = "response" /\ Len(erules) = 2
    /\ erules[1].actions = <<Patch(<<"ok", "fail">>), Action("append-body", Nil, "v1")>>
    /\ erules[2].actions = <<Action("append-body", Nil, "v2")>>
    /\ eres.mut.body = <<<<"o", "v1", "v2">>>>

\* =========================================================================
\* The unsafe-body predicate of the executor, on its own: the response headers
\* of the paused event and e.opts.MaxCaptureSize are the inputs.
\*
\* A header value is a string, kept as what the predicate reads from it: the
\* integer fmt.Sscanf(value, "%d") finds at its start (digits, NoNumber when
\* there is none) and the content type it spells (major "/" sub, followed or
\* not by ";" parameters, in lower or upper case).
\* ------------------------------------------------------------------ bounds
MaxCapture == 2     \* the largest MaxCaptureSize; a content-length goes one beyond
MaxHeaders == 2     \* response header entries of the paused event

NoNumber == 0 - 1

Number(n) == [digits |-> n, major |-> Nil, sub |-> Nil, params |-> FALSE, upper |-> FALSE]

ContentType(major, sub, params) ==
    [digits |-> NoNumber, major |-> major, sub |-> sub, params |-> params,
     upper |-> FALSE]

ResponseHeaderEntries ==
    {<<"content-length", Number(n)>> : n \in (0..(MaxCapture + 1)) \cup {NoNumber}}
    \cup {<<"Content-Length", Number(MaxCapture + 1)>>}
    \cup {<<"content-type", ContentType(t[1], t[2], p)>> :
             t \in {<<"text", "event-stream">>, <<"application", "octet-stream">>},
             p \in BOOLEAN}
    \cup {<<"content-type", ContentType(t[1], t[2], FALSE)>> :
             t \in {<<"video", "mp4">>, <<"audio", "ogg">>, <<"text", "html">>}}
    \cup {<<"Content-Type", [ContentType("video", "mp4", FALSE) EXCEPT !.upper = TRUE]>>}

\* strings.ToLower on a header name and on a header value.
ToLowerName(n) ==
    CASE n = "Content-Length" -> "content-length"
      [] n = "Content-Type" -> "content-type"
      [] OTHER -> n
ToLower(v) == [v EXCEPT !.upper = FALSE]

\* fmt.Sscanf(h.Value, "%d", &size) into var size int64: size stays 0 when the
\* value does not start with a number.
Sscanf(v) == IF v.digits = NoNumber THEN 0 ELSE v.digits

\* strings.HasPrefix(ct, major + "/"), strings.HasPrefix(ct, "text/event-stream")
\* and ct == "application/octet-stream" on a lower-cased value.
HasMajorPrefix(ct, major) == ~ct.upper /\ ct.major = major
HasPrefixEventStream(ct) == ~ct.upper /\ ct.major = "text" /\ ct.sub = "event-stream"
IsOctetStream(ct) ==
    ~ct.upper /\ ct.major = "application" /\ ct.sub = "octet-stream" /\ ~ct.params

\* One pass of the loop of IsUnsafeResponseBody.
UnsafeHeader(h, maxCaptureSize) ==
    LET name == ToLowerName(h[1])
    IN  \/ /\ name = "content-length"
           /\ Sscanf(h[2]) > maxCaptureSize /\ maxCaptureSize > 0
        \/ /\ name = "content-type"
           /\ LET ct == ToLower(h[2])
              IN  \/ HasMajorPrefix(ct, "video") \/ HasMajorPrefix(ct, "audio")
                  \/ HasPrefixEventStream(ct) \/ IsOctetStream(ct)

RECURSIVE IsUnsafeResponseBody(_, _)
IsUnsafeResponseBody(responseHeaders, maxCaptureSize) ==
    IF responseHeaders = <<>> THEN FALSE
    ELSE IF UnsafeHeader(Head(responseHeaders), maxCaptureSize) THEN TRUE
         ELSE IsUnsafeResponseBody(Tail(responseHeaders), maxCaptureSize)

\* executor.New for a paused response and a MaxCaptureSize, which may be 0 or
\* negative (no limit).
CaptureInit ==
    /\ RuntimeIdle
    /\ OtherIdle
    /\ ServiceIdle
    /\ AttachIdle
    /\ eopts \in NoNumber..MaxCapture
    /\ eev \in {[stage |-> "response", responseHeaders |-> hs] :
                  hs \in UNION {[1..n -> ResponseHeaderEntries] : n \in 0..MaxHeaders}}
    /\ erules = <<>>
    /\ ecfg = None
    /\ eres = NoResult

IsUnsafeResponseBodyCall ==
    /\ eres = NoResult
    /\ eres' = [stage |-> "capture",
                unsafe |-> IsUnsafeResponseBody(eev.responseHeaders, eopts)]
    /\ UNCHANGED <<zvars, rvars, avars, svars, eev, ecfg, eopts, erules>>

CaptureNext == IsUnsafeResponseBodyCall

CaptureSpec == CaptureInit /\ [][CaptureNext]_vars

\* C19: the predicate is true exactly when some content-length is strictly
\* greater than a positive cap or some content-type is a video or audio type,
\* text/event-stream or application/octet-stream (with or without parameters,
\* in any letter case); in particular a content-length equal to the cap does
\* not make a response unsafe.
UnsafeExactlyWhen ==
    eres # NoResult =>
        (eres.unsafe <=>
            \E i \in 1..Len(eev.responseHeaders) :
               LET name == ToLowerName(eev.responseHeaders[i][1])
                   v == eev.responseHeaders[i][2]
               IN  \/ /\ name = "content-length" /\ v.digits # NoNumber
                      /\ eopts > 0 /\ v.digits > eopts
                   \/ /\ name = "content-type"
                      /\ \/ v.major \in {"video", "audio"}
                         \/ v.major = "text" /\ v.sub = "event-stream"
                         \/ v.major = "application" /\ v.sub = "octet-stream")

\* =========================================================================
\* The target attachment of the Manager: AttachTarget and Detach called by the
\* user, the workspace loop polling the target list, and the watchers'
\* goroutines reacting to "visible" lifecycle events.  AttachTarget and
\* attachAuto run under m.attachMu; checkWorkspace and onTargetVisible read
\* m.fixedTarget, m.mode and m.currentTarget without it.  A step ends where a
\* goroutine waits for the network or for the mutex.
\* ------------------------------------------------------------------ bounds
NumTargets == 2     \* browser targets
MaxConsumers == 2   \* consume goroutines alive at one time

Targets == 1..NumTargets
NoTarget == 0                   \* the empty target id
workspaceModeAutoFollow == "auto"
workspaceModeFixed == "fixed"
Resting == [pc |-> "idle", target |-> NoTarget]

\* What an explicit call established: nothing (the call failed or is running),
\* auto-follow, the fixed mode with a target, or the detached state.
Established(m, target) == [mode |-> m, target |-> target]
Unpinned == Established(None, NoTarget)
Detached == Established("detached", NoTarget)

\* What the latest step did, when it was a "visible" event taken in ("event":
\* ok tells whether onTargetVisible goes on to attach), an attach-and-enable
\* attempt ("user", "poll", "visible", "stream": ok is the attach, en the
\* Enable after it) or a call of Enable by the user ("enable").
Att(by, target, ok, en) == [by |-> by, target |-> target, ok |-> ok, en |-> en]
NoAtt == Att(None, NoTarget, FALSE, FALSE)

\* New.
AttachInit ==
    /\ RuntimeIdle
    /\ OtherIdle
    /\ ServiceIdle
    /\ ExecIdle
    /\ mode = workspaceModeAutoFollow
    /\ fixedTarget = NoTarget
    /\ currentTarget = NoTarget
    /\ workspaceStop = FALSE
    /\ watchers = {}
    /\ upc = Resting /\ wpc = Resting /\ vpc = Resting /\ hpc = Resting
    /\ pinned = Unpinned
    /\ ctx = "nil"
    /\ conn = "nil"
    /\ consumers = 0
    /\ failedc = 0
    /\ att = NoAtt

\* m.cancel() and m.conn.Close() followed by the new context: the consumers of
\* the old context's stream fail, the old connection is closed.  A consumer
\* reads m.ctx in handleStreamError without the mutex: one that reads it before
\* the new context is stored finds it cancelled and returns, the others are
\* left to find the new one.
Recycle ==
    /\ ctx' = "live"
    /\ failedc' \in failedc..(failedc + consumers)

Closed == IF conn = "nil" THEN "nil" ELSE "closed"

\* AttachTarget(target) up to resolveTarget: the mutex is taken, the mode and
\* the fixed target are set, the old context is cancelled and replaced.
AttachTarget(target) ==
    /\ upc = Resting
    /\ upc' = [pc |-> "attach", target |-> target]
    /\ mode' = IF target # NoTarget THEN workspaceModeFixed ELSE workspaceModeAutoFollow
    /\ fixedTarget' = target
    /\ pinned' = Unpinned
    /\ Recycle
    /\ conn' = Closed
    /\ consumers' = 0
    /\ att' = NoAtt
    /\ UNCHANGED <<zvars, rvars, xvars, svars, currentTarget, workspaceStop, watchers, wpc,
                   vpc, hpc>>

\* The rest of AttachTarget: resolveTarget and the dial fail (ok = FALSE, and
\* sel is of no account), or sel is the target found (the one asked for, if
\* one was asked for), the workspace watcher is started or stopped, and the
\* mutex is released.
AttachTargetReturn(ok, sel) ==
    /\ upc.pc = "attach"
    /\ upc.target # NoTarget => sel = upc.target
    /\ (~ok /\ upc.target = NoTarget) => sel = 1
    /\ upc' = Resting
    /\ att' = Att("user", upc.target, ok, FALSE)
    /\ IF ok
       THEN /\ currentTarget' = sel
            /\ conn' = "open"
            /\ workspaceStop' = (upc.target = NoTarget)
            /\ watchers' = IF upc.target = NoTarget THEN watchers ELSE {}
            /\ pinned' = Established(IF upc.target = NoTarget
                                      THEN workspaceModeAutoFollow
                                      ELSE workspaceModeFixed, upc.target)
       ELSE /\ UNCHANGED <<currentTarget, workspaceStop, watchers, conn>>
            /\ pinned' = IF upc.target = NoTarget
                         THEN Established(workspaceModeAutoFollow, NoTarget)
                         ELSE Unpinned
    /\ UNCHANGED <<zvars, rvars, xvars, svars, mode, fixedTarget, wpc, vpc, hpc, ctx,
                   consumers, failedc>>

\* Detach: the context is cancelled, the workspace watcher stopped and the
\* connection closed, under the mutex.
Detach ==
    /\ upc = Resting
    /\ workspaceStop' = FALSE
    /\ watchers' = {}
    /\ pinned' = Detached
    /\ ctx' = IF ctx = "nil" THEN "nil" ELSE "done"
    /\ conn' = Closed
    /\ failedc' = failedc + consumers
    /\ consumers' = 0
    /\ att' = NoAtt
    /\ UNCHANGED <<zvars, rvars, xvars, svars, mode, fixedTarget, currentTarget, upc, wpc,
                   vpc, hpc>>

\* Enable called by the user: "not attached" without a client; Network.Enable
\* and Fetch.Enable fail on a cancelled context or a closed connection, and
\* can fail for a reason of their own (en = FALSE); otherwise a consume
\* goroutine is started.
Enable(en) ==
    /\ upc = Resting
    /\ conn # "nil"
    /\ en => (ctx = "live" /\ conn = "open")
    /\ en => consumers + failedc < MaxConsumers
    /\ consumers' = IF en THEN consumers + 1 ELSE consumers
    /\ att' = Att("enable", currentTarget, en, en)
    /\ UNCHANGED <<zvars, rvars, xvars, svars, mode, fixedTarget, currentTarget,
                   workspaceStop, watchers, upc, wpc, vpc, hpc, pinned, ctx, conn,
                   failedc>>

\* attachAuto(target) by a goroutine other than the user's: it waits for the
\* mutex and does not look at m.mode or m.fixedTarget.  With no target asked
\* for, sel is selectAutoTarget's choice (of no account when the attach fails).
attachAuto(target, ok, sel) ==
    /\ upc = Resting
    /\ target # NoTarget => sel = target
    /\ (~ok /\ target = NoTarget) => sel = 1
    /\ Recycle
    /\ conn' = IF ok THEN "open" ELSE Closed
    /\ currentTarget' = IF ok THEN sel ELSE currentTarget

\* attachAndEnable(target, auto) by such a goroutine: attachAuto, or
\* AttachTarget for a fixed target, and Enable when the attach succeeded (en
\* tells whether it was called and succeeded).
attachAndEnable(by, target, ok, sel, en) ==
    /\ attachAuto(target, ok, sel)
    /\ en => ok
    /\ en => failedc + consumers < MaxConsumers
    /\ consumers' = IF en THEN 1 ELSE 0
    /\ att' = Att(by, target, ok, en)
    /\ IF by = "stream" /\ target # NoTarget
       THEN /\ mode' = workspaceModeFixed
            /\ fixedTarget' = target
            /\ workspaceStop' = IF ok THEN FALSE ELSE workspaceStop
            /\ watchers' = IF ok THEN {} ELSE watchers
       ELSE UNCHANGED <<mode, fixedTarget, workspaceStop, watchers>>

\* A tick of the workspace loop: checkWorkspace up to dt.List.
checkWorkspace ==
    /\ workspaceStop
    /\ wpc = Resting
    /\ wpc' = IF fixedTarget # NoTarget THEN Resting
              ELSE [pc |-> "list", target |-> NoTarget]
    /\ att' = NoAtt
    /\ UNCHANGED <<zvars, rvars, xvars, svars, mode, fixedTarget, currentTarget, workspaceStop,
                   watchers, upc, vpc, hpc, pinned, ctx, conn, consumers, failedc>>

\* dt.List failed (listed = FALSE, and nothing else is read), or returned the
\* pages and refreshWatchers watches them; candidate is selectAutoTarget's
\* choice.
checkWorkspaceListed(listed, pages, candidate) ==
    /\ wpc.pc = "list"
    /\ ~listed => (pages = {} /\ candidate = NoTarget)
    /\ IF ~listed
       THEN wpc' = Resting /\ UNCHANGED watchers
       ELSE /\ watchers' = pages
            /\ wpc' = IF candidate = NoTarget \/ currentTarget = candidate
                      THEN Resting
                      ELSE [pc |-> "attach", target |-> candidate]
    /\ att' = NoAtt
    /\ UNCHANGED <<zvars, rvars, xvars, svars, mode, fixedTarget, currentTarget, workspaceStop,
                   upc, vpc, hpc, pinned, ctx, conn, consumers, failedc>>

checkWorkspaceAttach(ok, en) ==
    /\ wpc.pc = "attach"
    /\ attachAndEnable("poll", wpc.target, ok, wpc.target, en)
    /\ wpc' = Resting
    /\ UNCHANGED <<zvars, rvars, xvars, svars, upc, vpc, hpc, pinned>>

\* onTargetVisible that does not compare the target with the current one.
onTargetVisible_Mut(id) ==
    /\ id \in watchers
    /\ vpc = Resting
    /\ LET follow == mode = workspaceModeAutoFollow
       IN  /\ vpc' = IF follow THEN [pc |-> "attach", target |-> id] ELSE Resting
           /\ att' = Att("event", id, follow, FALSE)
    /\ UNCHANGED <<zvars, rvars, xvars, svars, mode, fixedTarget, currentTarget, workspaceStop,
                   watchers, upc, wpc, hpc, pinned, ctx, conn, consumers, failedc>>

\* The watcher of id receives a "visible" event: onTargetVisible up to
\* attachAndEnable.
onTargetVisible(id) ==
    /\ id \in watchers
    /\ vpc = Resting
    /\ LET follow == mode = workspaceModeAutoFollow /\ currentTarget # id
       IN  /\ vpc' = IF follow THEN [pc |-> "attach", target |-> id] ELSE Resting
           /\ att' = Att("event", id, follow, FALSE)
    /\ UNCHANGED <<zvars, rvars, xvars, svars, mode, fixedTarget, currentTarget, workspaceStop,
                   watchers, upc, wpc, hpc, pinned, ctx, conn, consumers, failedc>>

onTargetVisibleAttach(ok, en) ==
    /\ vpc.pc = "attach"
    /\ attachAndEnable("visible", vpc.target, ok, vpc.target, en)
    /\ vpc' = Resting
    /\ UNCHANGED <<zvars, rvars, xvars, svars, upc, wpc, hpc, pinned>>

\* The transport of the paused stream fails while the session is live: Recv
\* returns an error in every consumer of the stream.
streamFail ==
    /\ ctx = "live"
    /\ consumers > 0
    /\ failedc' = failedc + consumers
    /\ consumers' = 0
    /\ att' = NoAtt
    /\ UNCHANGED <<zvars, rvars, xvars, svars, mode, fixedTarget, currentTarget, workspaceStop,
                   watchers, upc, wpc, vpc, hpc, pinned, ctx, conn>>

\* A consumer whose Recv failed: handleStreamError up to attachAndEnable.  It
\* returns when m.ctx is cancelled; otherwise it picks the fixed target, or
\* none for auto-follow.
handleStreamError ==
    /\ failedc > 0
    /\ hpc = Resting
    /\ failedc' = failedc - 1
    /\ hpc' = IF ctx # "live" THEN Resting
              ELSE [pc |-> "attach", target |-> fixedTarget]
    /\ att' = NoAtt
    /\ UNCHANGED <<zvars, rvars, xvars, svars, mode, fixedTarget, currentTarget, workspaceStop,
                   watchers, upc, wpc, vpc, pinned, ctx, conn, consumers>>

\* handleStreamError's attachAndEnable(target, auto), then consume returns.
handleStreamErrorAttach(ok, sel, en) ==
    /\ hpc.pc = "attach"
    /\ attachAndEnable("stream", hpc.target, ok, sel, en)
    /\ hpc' = Resting
    /\ UNCHANGED <<zvars, rvars, xvars, svars, upc, wpc, vpc, pinned>>

AttachNext ==
    \/ \E t \in Targets \cup {NoTarget} : AttachTarget(t)
    \/ \E ok \in BOOLEAN, sel \in Targets : AttachTargetReturn(ok, sel)
    \/ Detach
    \/ \E en \in BOOLEAN : Enable(en)
    \/ checkWorkspace
    \/ \E listed \in BOOLEAN, pages \in SUBSET Targets,
          candidate \in Targets \cup {NoTarget} :
            checkWorkspaceListed(listed, pages, candidate)
    \/ \E ok, en \in BOOLEAN : checkWorkspaceAttach(ok, en)
    \/ \E id \in Targets : onTargetVisible(id)
    \/ \E ok, en \in BOOLEAN : onTargetVisibleAttach(ok, en)
    \/ streamFail
    \/ handleStreamError
    \/ \E ok, en \in BOOLEAN, sel \in Targets : handleStreamErrorAttach(ok, sel, en)

AttachSpec == AttachInit /\ [][AttachNext]_vars

\* C20: from the return of a successful AttachTarget(t) with a target until
\* the next explicit AttachTarget or Detach, the manager is in fixed mode and
\* its current target is t, whatever polls and visible events were in flight;
\* and after an AttachTarget with no target it is in auto-follow mode.
FixedTargetStays ==
    /\ pinned.mode = workspaceModeFixed =>
          (mode = workspaceModeFixed /\ currentTarget = pinned.target)
    /\ pinned.mode = workspaceModeAutoFollow => mode = workspaceModeAutoFollow

StreamFailureRetriesOnce ==
    [][att'.by = "stream" =>
          /\ hpc.pc = "attach" /\ hpc' = Resting
          /\ mode' = mode
          /\ mode = workspaceModeFixed =>
                (att'.target = fixedTarget /\ fixedTarget # NoTarget)
          /\ mode = workspaceModeAutoFollow => att'.target = NoTarget
          /\ ~att'.ok => (consumers' = 0 /\ failedc' <= failedc + consumers)]_vars

\* C24: from the return of Detach until the next call of AttachTarget the
\* context is cancelled, the connection is closed and there is no consumer: no
\* poll, watcher callback or failed consumer, even one in flight during
\* Detach, attaches or enables.
DetachedStaysDetached ==
    pinned = Detached =>
        /\ ctx \in {"nil", "done"}
        /\ conn \in {"nil", "closed"}
        /\ consumers = 0

\* C25: one attachment has at most one consumer of its paused stream, however
\* often Enable is called on it; every consumer dispatches each paused event
\* of the stream, so an event is dispatched as many times as there are
\* consumers.
EnableStartsOneConsumer == consumers <= 1

\* =========================================================================
\* Target selection: resolveTarget and selectAutoTarget over one answer of the
\* DevTools target list.  The list is in eev, the answer in eres.
\* ------------------------------------------------------------------ bounds
MaxListed == 3      \* targets in one answer of dt.List

TargetTypes == {"page", "iframe"}
URLSchemes == {"https", "chrome", "devtools"}
InternalSchemes == {"chrome", "devtools"}

\* A listed target: its id is its place in the list, so ids are distinct.
ListedTarget(id, type, url) == [id |-> id, type |-> type, url |-> url]
NilTarget == ListedTarget(NoTarget, None, None)

TargetLists ==
    UNION {{[i \in 1..n |-> ListedTarget(i, k[i][1], k[i][2])] :
              k \in [1..n -> TargetTypes \X URLSchemes]} : n \in 0..MaxListed}

\* A user page's URL does not begin with one of the browser's internal schemes.
isUserPageURL(url) == url \notin InternalSchemes

\* selectAutoTarget that scans the list from the front.
RECURSIVE FirstUserPage(_, _)
FirstUserPage(targets, i) ==
    IF i > Len(targets) THEN NilTarget
    ELSE IF targets[i].type # "page" \/ ~isUserPageURL(targets[i].url)
         THEN FirstUserPage(targets, i + 1)
         ELSE targets[i]

selectAutoTarget_Mut(targets) ==
    LET sel == FirstUserPage(targets, 1)
    IN  IF sel = NilTarget /\ Len(targets) > 0 THEN targets[1] ELSE sel

\* The loop of selectAutoTarget, from index i down to the first entry.
RECURSIVE LastUserPage(_, _)
LastUserPage(targets, i) ==
    IF i < 1 THEN NilTarget
    ELSE IF targets[i].type # "page" \/ ~isUserPageURL(targets[i].url)
         THEN LastUserPage(targets, i - 1)
         ELSE targets[i]

selectAutoTarget(targets) ==
    LET sel == LastUserPage(targets, Len(targets))
    IN  IF sel = NilTarget /\ Len(targets) > 0 THEN targets[1] ELSE sel

\* The search of resolveTarget for the target asked for.
RECURSIVE FindTarget(_, _, _)
FindTarget(targets, target, i) ==
    IF i > Len(targets) THEN NilTarget
    ELSE IF targets[i].id = target THEN targets[i]
         ELSE FindTarget(targets, target, i + 1)

\* resolveTarget(ctx, target); listed = FALSE is an error of dt.List.
resolveTarget(listed, targets, target) ==
    IF ~listed THEN [err |-> TRUE, sel |-> NilTarget]
    ELSE IF Len(targets) = 0 THEN [err |-> FALSE, sel |-> NilTarget]
    ELSE IF target # NoTarget
         THEN [err |-> FALSE, sel |-> FindTarget(targets, target, 1)]
         ELSE [err |-> FALSE, sel |-> selectAutoTarget(targets)]

SelectInit ==
    /\ RuntimeIdle
    /\ OtherIdle
    /\ ServiceIdle
    /\ AttachIdle
    /\ eev \in TargetLists
    /\ erules = <<>>
    /\ ecfg = None
    /\ eopts = 0
    /\ eres = NoResult

resolveTargetCall(listed, target) ==
    /\ eres = NoResult
    /\ eres' = [stage |-> "resolve", target |-> target,
                res |-> resolveTarget(listed, eev, target)]
    /\ UNCHANGED <<zvars, rvars, avars, svars, erules, eev, ecfg, eopts>>

SelectNext ==
    \E listed \in BOOLEAN, target \in 0..(MaxListed + 1) :
        resolveTargetCall(listed, target)

SelectSpec == SelectInit /\ [][SelectNext]_vars

UserPages(targets) ==
    {i \in 1..Len(targets) :
        targets[i].type = "page" /\ targets[i].url \notin InternalSchemes}

AutoResolved == eres # NoResult /\ eres.target = NoTarget /\ ~eres.res.err

\* C22: auto selection returns the last listed target of type page whose URL
\* is a user page; when the list has none it returns the first listed target;
\* it returns no target only when the list is empty.
AutoSelectsLastUserPage ==
    AutoResolved =>
        /\ UserPages(eev) # {} =>
              /\ eres.res.sel.id \in UserPages(eev)
              /\ \A j \in UserPages(eev) : j <= eres.res.sel.id
        /\ (UserPages(eev) = {} /\ Len(eev) > 0) => eres.res.sel = eev[1]
        /\ eres.res.sel = NilTarget <=> Len(eev) = 0

\* Two user pages followed by a target that is not one: the second is chosen.
SecondOfThreeSelected ==
    /\ AutoResolved
    /\ Len(eev) = 3
    /\ UserPages(eev) = {1, 2}
    /\ eres.res.sel = eev[2]

\* =========================================================================
\* Manager.handle for one paused event, with its numbers: the drop rate and the
\* random draw (in hundredths), the delay, the per-event timeout and the time
\* that passes (in units of one second).  The matched action and the inputs
\* are in eev, the configured processTimeoutMS in eopts, the outcome in eres.
\* ------------------------------------------------------------------ bounds
MaxDelay == 4       \* the longest a.DelayMS
MaxTimeout == 2     \* the longest configured processTimeoutMS

DefaultTimeout == 3             \* to = 3000 when processTimeoutMS <= 0
DropRates == {0, 50, 100}       \* a.DropRate: 0, 0.5, 1
Draws == {0, 49, 50, 99}        \* rand.Float64(), in [0, 1)
ActionKinds == {"nil", "pause", "fail", "respond", "rewrite", "empty"}

\* The test of the drop branch with the comparison made inclusive.
dropRateHit_Mut(dropRate, draw) == dropRate > 0 /\ draw <= dropRate

\* a.DropRate > 0 and rand.Float64() < a.DropRate.
dropRateHit(dropRate, draw) == dropRate > 0 /\ draw < dropRate

\* The per-event timeout handle works with.
ProcessTimeout(processTimeoutMS) ==
    IF processTimeoutMS <= 0 THEN DefaultTimeout ELSE processTimeoutMS

\* What handle does with action a, the draw, and `before` units of time spent
\* on the "intercepted" send and on decide.  slept is how long time.Sleep ran,
\* elapsed is time.Since(start) after the delay step; ctx, made before start
\* with the same timeout, has expired whenever elapsed exceeds the timeout.
\* applied is the apply call handle makes, expired tells whether it makes it
\* with an expired ctx.
handleOutcome(a, draw, before, processTimeoutMS) ==
    LET to == ProcessTimeout(processTimeoutMS)
        slept == IF a.delayMS > 0 THEN a.delayMS ELSE 0
        elapsed == before + slept
        Out(path, applied, emitted, sleep, at) ==
            [stage |-> "handle", path |-> path, applied |-> applied,
             emitted |-> emitted, slept |-> sleep, sleptUntil |-> at,
             expired |-> at > to]
    IN  IF a.kind = "nil" THEN Out("plain", "continue", None, 0, before)
        ELSE IF dropRateHit(a.dropRate, draw)
             THEN Out("dropped", "continue", "degraded", 0, before)
        ELSE IF elapsed > to
             THEN Out("timeout", "continue", "degraded", slept, elapsed)
        ELSE IF a.kind = "pause" THEN Out("pause", "pause", None, slept, elapsed)
        ELSE IF a.kind = "fail" THEN Out("fail", "fail", "failed", slept, elapsed)
        ELSE IF a.kind = "respond"
             THEN Out("respond", "fulfill", "fulfilled", slept, elapsed)
        ELSE IF a.kind = "rewrite"
             THEN Out("rewrite", "rewrite", "mutated", slept, elapsed)
        ELSE Out("plain", "continue", None, slept, elapsed)

HandleInit ==
    /\ RuntimeIdle
    /\ OtherIdle
    /\ ServiceIdle
    /\ AttachIdle
    /\ eev \in [kind : ActionKinds, dropRate : DropRates, delayMS : 0..MaxDelay,
                draw : Draws, before : 0..1]
    /\ eopts \in 0..MaxTimeout
    /\ erules = <<>>
    /\ ecfg = None
    /\ eres = NoResult

\* handle runs.  A protocol call made with an expired ctx may or may not get
\* its message to the browser before the client gives up on it.
handleRun(reached) ==
    /\ eres = NoResult
    /\ LET out == handleOutcome(eev, eev.draw, eev.before, eopts)
       IN  /\ ~out.expired => reached
           /\ eres' = [r \in {"reached"} \cup DOMAIN out |->
                          IF r = "reached" THEN reached ELSE out[r]]
    /\ UNCHANGED <<zvars, rvars, avars, svars, erules, eev, ecfg, eopts>>

HandleNext == \E reached \in BOOLEAN : handleRun(reached)

HandleSpec == HandleInit /\ [][HandleNext]_vars

Handled == eres # NoResult

Degraded == eres.applied = "continue" /\ eres.emitted = "degraded"

\* The apply call of the matched action.
ActionApplied ==
    eres.applied = CASE eev.kind = "pause" -> "pause"
                     [] eev.kind = "fail" -> "fail"
                     [] eev.kind = "respond" -> "fulfill"
                     [] eev.kind = "rewrite" -> "rewrite"
                     [] OTHER -> "continue"

\* C28 as stated: with a declared drop rate, the handler degrades (continue,
\* "degraded", action not applied) exactly when the random draw is greater
\* than or equal to the rate, and applies the action otherwise.
DropWhenDrawAtLeast ==
    (Handled /\ eev.kind # "nil" /\ eev.dropRate > 0) =>
        IF eev.draw >= eev.dropRate
        THEN eres.path = "dropped" /\ Degraded
        ELSE ActionApplied /\ ~Degraded

\* C28: with a declared drop rate, the handler degrades on the drop branch
\* exactly when the random draw is less than the rate; otherwise it goes on to
\* the delay and the deadline check, and applies the action when the deadline
\* has not passed.
DropWhenDrawBelow ==
    (Handled /\ eev.kind # "nil" /\ eev.dropRate > 0) =>
        /\ eres.path = "dropped" <=> eev.draw < eev.dropRate
        /\ eres.path = "dropped" => Degraded
        /\ (eev.draw >= eev.dropRate /\ eres.path # "timeout") =>
              (ActionApplied /\ eres.emitted # "degraded")

\* A draw equal to the rate: the action is applied.
DrawAtRateApplied ==
    /\ Handled
    /\ eev.kind = "fail" /\ eev.dropRate = 50 /\ eev.draw = 50
    /\ eres.applied = "fail"

\* C29: the handler stops sleeping no later than the per-event deadline, and
\* when the deadline has passed after the delay step it resolves the event
\* with a continue that reaches the browser, without applying the action,
\* and emits "degraded".
DeadlineBounded ==
    (Handled /\ eev.kind # "nil" /\ eres.path # "dropped") =>
        /\ eev.delayMS > 0 => eres.sleptUntil <= ProcessTimeout(eopts)
        /\ eres.expired => (eres.path = "timeout" /\ Degraded /\ eres.reached)

\* =========================================================================
\* The service layer: the sessions map under svc.mu and the operations that
\* look a session up by id.  Every operation is one step: StartSession and
\* LoadRules hold the mutex throughout, the others take the session out of the
\* map under the mutex and then work on the session object alone.
\* ------------------------------------------------------------------ bounds
MaxSessions == 2    \* ids uuid.New() hands out
MaxStops == 2       \* calls of workPool.Stop() on one pool
MaxVersions == 2    \* rule configurations that can be loaded

SessionIDs == 1..MaxSessions
NoSession == 0                  \* the empty session id
NoConfig == 0                   \* no rule configuration: engine = nil
Configurations == 1..MaxVersions

\* The session object as StartSession builds it: interception off, the pool
\* made by pool.New and running, no engine.
NewSession == [enabled |-> FALSE, pool |-> "running", stops |-> 0,
               engine |-> NoConfig]
NoObject == [enabled |-> FALSE, pool |-> "none", stops |-> 0, engine |-> NoConfig]

Ret(op, id, err, ret) == [op |-> op, id |-> id, err |-> err, ret |-> ret]
NoEval == [pc |-> "idle", id |-> NoSession, snapshot |-> NoConfig, seen |-> <<>>]

ServiceInit ==
    /\ RuntimeIdle
    /\ OtherIdle
    /\ ExecIdle
    /\ AttachIdle
    /\ sessions = {}
    /\ ses = [id \in SessionIDs |-> NoObject]
    /\ nextID = 1
    /\ failedStart = {}
    /\ sret = Ret(None, NoSession, FALSE, NoSession)
    /\ eval = NoEval

\* workPool.Stop().
Stop(s) == [s EXCEPT !.pool = "stopped", !.stops = @ + 1]

\* StartSession that registers the session before it probes DevTools.
StartSession_Mut(ok) ==
    /\ nextID <= MaxSessions
    /\ nextID' = nextID + 1
    /\ ses' = [ses EXCEPT ![nextID] = NewSession]
    /\ sessions' = sessions \cup {nextID}
    /\ failedStart' = IF ok THEN failedStart ELSE failedStart \cup {nextID}
    /\ sret' = Ret("StartSession", nextID, ~ok, IF ok THEN nextID ELSE NoSession)
    /\ UNCHANGED <<zvars, rvars, xvars, avars, eval>>

\* StartSession: the id is generated and the components are built; ok tells
\* whether mgr.ListTargets, the probe of DevTools, succeeded.  The components of
\* a failed start are unreachable when it returns.
StartSession(ok) ==
    /\ nextID <= MaxSessions
    /\ nextID' = nextID + 1
    /\ ses' = IF ok THEN [ses EXCEPT ![nextID] = NewSession] ELSE ses
    /\ sessions' = IF ok THEN sessions \cup {nextID} ELSE sessions
    /\ failedStart' = IF ok THEN failedStart ELSE failedStart \cup {nextID}
    /\ sret' = Ret("StartSession", nextID, ~ok, IF ok THEN nextID ELSE NoSession)
    /\ UNCHANGED <<zvars, rvars, xvars, avars, eval>>

StopSession(id) ==
    /\ ses[id].stops < MaxStops
    /\ sessions' = sessions \ {id}
    /\ ses' = IF id \in sessions
              THEN [ses EXCEPT ![id] = Stop([NewSession EXCEPT !.stops = ses[id].stops])]
              ELSE ses
    /\ sret' = Ret("StopSession", id, id \notin sessions, NoSession)
    /\ UNCHANGED <<zvars, rvars, xvars, avars, nextID, failedStart, eval>>

EnableInterception(id) ==
    /\ ses' = IF id \in sessions THEN [ses EXCEPT ![id].enabled = TRUE] ELSE ses
    /\ sret' = Ret("EnableInterception", id, id \notin sessions, NoSession)
    /\ UNCHANGED <<zvars, rvars, xvars, avars, sessions, nextID, failedStart, eval>>

DisableInterception(id) ==
    /\ ses[id].stops < MaxStops
    /\ ses' = IF id \in sessions
              THEN [ses EXCEPT ![id] = Stop([@ EXCEPT !.enabled = FALSE])]
              ELSE ses
    /\ sret' = Ret("DisableInterception", id, id \notin sessions, NoSession)
    /\ UNCHANGED <<zvars, rvars, xvars, avars, sessions, nextID, failedStart, eval>>

\* LoadRules(id, cfg): rules.New(cfg) for the first configuration,
\* engine.Update(cfg) afterwards; either way the engine then holds cfg.
LoadRules(id, cfg) ==
    /\ ses' = IF id \in sessions THEN [ses EXCEPT ![id].engine = cfg] ELSE ses
    /\ sret' = Ret("LoadRules", id, id \notin sessions, NoSession)
    /\ UNCHANGED <<zvars, rvars, xvars, avars, sessions, nextID, failedStart, eval>>

SubscribeEvents(id) ==
    /\ sret' = Ret("SubscribeEvents", id, id \notin sessions, NoSession)
    /\ UNCHANGED <<zvars, rvars, xvars, avars, sessions, ses, nextID, failedStart, eval>>

ServiceNext ==
    \/ \E ok \in BOOLEAN : StartSession(ok)
    \/ \E id \in SessionIDs : StopSession(id)
    \/ \E id \in SessionIDs : EnableInterception(id)
    \/ \E id \in SessionIDs : DisableInterception(id)
    \/ \E id \in SessionIDs, cfg \in Configurations : LoadRules(id, cfg)
    \/ \E id \in SessionIDs : SubscribeEvents(id)

ServiceSpec == ServiceInit /\ [][ServiceNext]_vars

PoolStoppedOnlyByTeardown ==
    /\ \A id \in sessions : ses[id].pool = "running" /\ ses[id].stops = 0
    /\ \A id \in SessionIDs : ses[id].stops <= 1

\* =========================================================================
\* Rule-set replacement against a running evaluation.  The engine of a session
\* holds one configuration; LoadRules replaces it under svc.mu.  An evaluation
\* takes the engine's rule set when it begins and then reads its rules one by
\* one, while LoadRules may run between two reads.
\* ------------------------------------------------------------------ bounds
NumRules == 2       \* rules of one configuration

\* Rule i of configuration cfg.
RuleOf(cfg, i) == <<cfg, i>>

\* Every session exists, as successful calls of StartSession leave them.
RulesInit ==
    /\ RuntimeIdle
    /\ OtherIdle
    /\ ExecIdle
    /\ AttachIdle
    /\ sessions = SessionIDs
    /\ ses = [id \in SessionIDs |-> NewSession]
    /\ nextID = MaxSessions + 1
    /\ failedStart = {}
    /\ sret = Ret("StartSession", MaxSessions, FALSE, MaxSessions)
    /\ eval = NoEval

\* Eval begins: with no engine there is nothing to evaluate; otherwise the
\* evaluation takes the rule set the engine holds now.
EvalBegin(id) ==
    /\ eval.pc # "running"
    /\ id \in sessions
    /\ ses[id].engine # NoConfig
    /\ eval' = [pc |-> "running", id |-> id, snapshot |-> ses[id].engine,
                seen |-> <<>>]
    /\ UNCHANGED <<zvars, rvars, xvars, avars, sessions, ses, nextID, failedStart, sret>>

\* An evaluation that reads each rule from the engine's current rule set.
EvalRule_Mut ==
    /\ eval.pc = "running"
    /\ Len(eval.seen) < NumRules
    /\ eval' = [eval EXCEPT
                  !.seen = Append(@, RuleOf(ses[eval.id].engine, Len(@) + 1))]
    /\ UNCHANGED <<zvars, rvars, xvars, avars, sessions, ses, nextID, failedStart, sret>>

\* The evaluation reads its next rule from the rule set it took.
EvalRule ==
    /\ eval.pc = "running"
    /\ Len(eval.seen) < NumRules
    /\ eval' = [eval EXCEPT
                  !.seen = Append(@, RuleOf(eval.snapshot, Len(@) + 1))]
    /\ UNCHANGED <<zvars, rvars, xvars, avars, sessions, ses, nextID, failedStart, sret>>

EvalEnd ==
    /\ eval.pc = "running"
    /\ Len(eval.seen) = NumRules
    /\ eval' = [eval EXCEPT !.pc = "done"]
    /\ UNCHANGED <<zvars, rvars, xvars, avars, sessions, ses, nextID, failedStart, sret>>

RulesNext ==
    \/ \E id \in SessionIDs, cfg \in Configurations : LoadRules(id, cfg)
    \/ \E id \in SessionIDs : EvalBegin(id)
    \/ EvalRule
    \/ EvalEnd

RulesSpec == RulesInit /\ [][RulesNext]_vars

\* C26: an evaluation running while rule sets are loaded reads every rule from
\* one rule set, the one the engine held when the evaluation began, from its
\* first rule to its last.
EvaluationSeesOneRuleSet ==
    /\ eval.pc # "idle" =>
          \E cfg \in Configurations :
             /\ \A i \in 1..Len(eval.seen) : eval.seen[i] = RuleOf(cfg, i)
             /\ cfg = eval.snapshot
    /\ eval.pc = "done" => Len(eval.seen) = NumRules

\* An evaluation finished with the old rule set after a new one was loaded.
FinishedWithOldRuleSet ==
    /\ eval.pc = "done"
    /\ ses[eval.id].engine # eval.snapshot
    /\ eval.seen = <<RuleOf(eval.snapshot, 1), RuleOf(eval.snapshot, 2)>>

\* =========================================================================
\* The approval wait of handle's pause branch, in time: ctx is made at the
\* start of handle with the per-event timeout, applyPause waits for an
\* approval for at most p.TimeoutMS and then makes the terminal call with that
\* ctx.  The inputs are the pause timeout, the time after which an approval
\* arrives (Never: none does), the time handle spent before applyPause, and
\* processTimeoutMS.
\* ------------------------------------------------------------------ bounds
MaxPause == 3       \* the longest p.TimeoutMS, and the latest approval

Never == MaxPause + 1

\* waitForApproval(ch, timeoutMS) in time: what the select takes (first says
\* which, when the approval and the timer are ready together) and how long it
\* waited.
timedWait(timeoutMS, approveAt, first) ==
    IF approveAt < timeoutMS \/ (approveAt = timeoutMS /\ first = "approval")
    THEN [got |-> "approval", waited |-> approveAt]
    ELSE [got |-> "timeout", waited |-> timeoutMS]

PauseInit ==
    /\ RuntimeIdle
    /\ OtherIdle
    /\ ServiceIdle
    /\ AttachIdle
    /\ eev \in [timeoutMS : 0..MaxPause, approveAt : 0..Never, before : 0..1]
    /\ eopts \in 0..MaxTimeout
    /\ erules = <<>>
    /\ ecfg = None
    /\ eres = NoResult

\* applyPause from waitForApproval on: the wait, then applyApprovalResult makes
\* the terminal call (of the approval, or the default action) with ctx, which
\* has expired when more than the per-event timeout has passed since the start
\* of handle.
timedPause(first) ==
    /\ eres = NoResult
    /\ LET w == timedWait(eev.timeoutMS, eev.approveAt, first)
           at == eev.before + w.waited
       IN  eres' = [stage |-> "pause", got |-> w.got, at |-> at,
                    expired |-> at > ProcessTimeout(eopts)]
    /\ UNCHANGED <<zvars, rvars, avars, svars, erules, eev, ecfg, eopts>>

PauseNext == \E first \in {"approval", "timer"} : timedPause(first)

PauseSpec == PauseInit /\ [][PauseNext]_vars

\* C39: the terminal call made after an approval wait, on approve and on
\* timeout with the default action, is made under a context whose per-event
\* deadline has not passed, for every pause timeout and per-event timeout.
PauseCallWithinDeadline ==
    (eres # NoResult /\ eres.stage = "pause") => ~eres.expired

\* =========================================================================
\* Further claims about the executor (specification ExecSpec).

\* C40: an execution gives exactly one transport-level outcome.  In the request
\* stage exactly one of ContinueArgs and FulfillArgs is set, FulfillArgs
\* exactly when a block was reached; in the response stage exactly one of
\* ContinueRes and FulfillArgs is set, FulfillArgs exactly when the merged
\* mutation has a body.  The arguments of the other stage are never set.
ExactlyOneOutcome ==
    Executed =>
        /\ eres.stage = "request" =>
              /\ (eres.continueArgs = <<>>) # (eres.fulfillArgs = <<>>)
              /\ eres.fulfillArgs # <<>> <=> BlockReached
              /\ eres.continueRes = <<>>
        /\ eres.stage = "response" =>
              /\ (eres.continueRes = <<>>) # (eres.fulfillArgs = <<>>)
              /\ eres.fulfillArgs # <<>> <=> eres.mut.body # <<>>
              /\ eres.continueArgs = <<>>

\* A response whose body was rewritten while its status was left alone: it is
\* fulfilled, and no ContinueRes is produced.
BodyOnlyFulfilled ==
    /\ Executed /\ eres.stage = "response"
    /\ eres.mut.body # <<>> /\ eres.mut.statusCode = 0
    /\ eres.fulfillArgs # <<>> /\ eres.continueRes = <<>>

\* The headers that go out with the result of an execution that was not
\* blocked: the override, or the event's own headers when there is none.
OutgoingHeaders ==
    IF eres.stage = "request"
    THEN IF eres.continueArgs[1].headers = <<>> THEN toHeaderEntries(eev.headers)
         ELSE eres.continueArgs[1].headers[1]
    ELSE IF eres.fulfillArgs # <<>> THEN eres.fulfillArgs[1].responseHeaders[1]
         ELSE IF eres.continueRes[1].responseHeaders = <<>>
              THEN toHeaderEntries(HeaderMap(NoMap(HeaderNames), eev.responseHeaders))
              ELSE eres.continueRes[1].responseHeaders[1]

\* What one rule does to header n: it sets it (and does not remove it), or it
\* removes it (and does not set it).
SetsHeader(r, n) ==
    /\ \E j \in 1..Len(r.actions) :
          r.actions[j].type = "set-header" /\ r.actions[j].name = n
          /\ r.actions[j].value # NotString
    /\ \A j \in 1..Len(r.actions) :
          ~(r.actions[j].type = "remove-header" /\ r.actions[j].name = n)

RemovesHeader(r, n) ==
    /\ \E j \in 1..Len(r.actions) :
          r.actions[j].type = "remove-header" /\ r.actions[j].name = n
    /\ \A j \in 1..Len(r.actions) :
          ~(r.actions[j].type = "set-header" /\ r.actions[j].name = n)

\* C32: header mutations respect the rule order, per header name.  When the
\* last rule of the stage that touches header x removes it and an earlier rule
\* set it, x is absent from the outgoing headers; when the last rule that
\* touches x sets it and an earlier rule removed it, x goes out with the value
\* that rule set.
HeaderOrderRespected ==
    (Executed /\ ~eres.isBlocked) =>
        LET rs == StageRules
            T == {k \in 1..Len(rs) : SetsHeader(rs[k], "x") \/ RemovesHeader(rs[k], "x")}
        IN  \A j \in T :
              (\A k \in 1..Len(rs) :
                  k > j => ~(SetsHeader(rs[k], "x") \/ RemovesHeader(rs[k], "x"))) =>
                /\ (RemovesHeader(rs[j], "x")
                     /\ \E i \in 1..(j - 1) : SetsHeader(rs[i], "x")) =>
                      \A e \in OutgoingHeaders : e[1] # "x"
                /\ (SetsHeader(rs[j], "x")
                     /\ \E i \in 1..(j - 1) : RemovesHeader(rs[i], "x")) =>
                      <<"x", RuleMutations[j].headers["x"]>> \in OutgoingHeaders

\* =========================================================================
\* Further claims about the attachment (specification AttachSpec).

\* C38: in auto-follow mode the workspace poll changes only the watcher
\* registry.  A poll that finds the current target still among the listed user
\* pages does not go on to attach the manager to another target.
PollKeepsFollowedTarget ==
    [][(/\ wpc.pc = "list"
        /\ mode = workspaceModeAutoFollow
        /\ currentTarget # NoTarget
        /\ currentTarget \in watchers') => wpc'.pc # "attach"]_vars

\* =========================================================================
\* Deliberate re-attaches on their own: the calls of AttachTarget and Enable
\* and the stream-error handlers of the consumers, with a transport that
\* never fails.
ReattachNext ==
    \/ \E t \in Targets \cup {NoTarget} : AttachTarget(t)
    \/ \E ok \in BOOLEAN, sel \in Targets : AttachTargetReturn(ok, sel)
    \/ \E en \in BOOLEAN : Enable(en)
    \/ handleStreamError
    \/ \E ok, en \in BOOLEAN, sel \in Targets : handleStreamErrorAttach(ok, sel, en)

ReattachSpec == AttachInit /\ [][ReattachNext]_vars

\* C33: a deliberate re-attach does not make the stream-error handler of a
\* consumer of the previous session start a reconnect.  With a transport that
\* never fails, no handler ever goes on to attachAndEnable.
ReattachStartsNoReconnect == hpc = Resting

\* =========================================================================
\* The watcher registry of the manager: refreshWatchers, called by the
\* workspace poll, and the goroutines that startWatcher starts.  A watcher is
\* numbered in the order of its start; m.watchers maps a target id to one
\* watcher.  The goroutine of a watcher leaves its loop when stream.Recv
\* returns an error, which it does once the watcher's context is cancelled or
\* its transport fails, and then calls removeWatcher with its target id.
\* ------------------------------------------------------------------ bounds
MaxWatchers == 3    \* watchers started in one behaviour

Watchers == 1..MaxWatchers
NoWatcher == 0
NoWatch == [id |-> NoTarget, st |-> "none"]

\* New: the registry is empty.
WatchInit ==
    /\ RuntimeIdle
    /\ ExecIdle
    /\ AttachIdle
    /\ ServiceIdle
    /\ InterceptIdle
    /\ ClientIdle
    /\ CloseIdle
    /\ wreg = [id \in Targets |-> NoWatcher]
    /\ wt = [w \in Watchers |-> NoWatch]

\* refreshWatchers(ctx, targets): pages are the ids of the listed user pages;
\* the watcher of an id that is not among them is cancelled and deleted, and
\* a watcher is started for a page that has none (started: the pages for which
\* startWatcher succeeds).
refreshWatchers(pages, started) ==
    LET removed == {id \in Targets : wreg[id] # NoWatcher /\ id \notin pages}
        new == {id \in started : wreg[id] = NoWatcher}
        used == Cardinality({w \in Watchers : wt[w] # NoWatch})
        num(id) == used + Cardinality({j \in new : j <= id})
    IN  /\ started \subseteq pages
        /\ used + Cardinality(new) <= MaxWatchers
        /\ wreg' = [id \in Targets |->
                      IF id \in removed THEN NoWatcher
                      ELSE IF id \in new THEN num(id) ELSE wreg[id]]
        /\ wt' = [w \in Watchers |->
                    IF \E id \in removed : wreg[id] = w
                    THEN [wt[w] EXCEPT !.st = "cancelled"]
                    ELSE IF \E id \in new : num(id) = w
                    THEN [id |-> CHOOSE id \in new : num(id) = w, st |-> "running"]
                    ELSE wt[w]]
        /\ UNCHANGED <<rvars, xvars, avars, svars, ivars, gvars, cvars>>

\* The goroutine of watcher w leaves its loop and runs removeWatcher(id): the
\* watcher found under the id, whichever it is, is cancelled and deleted.
watcherExit(w) ==
    /\ wt[w].st \in {"running", "cancelled"}
    /\ LET id == wt[w].id
           r == wreg[id]
       IN  /\ wreg' = [wreg EXCEPT ![id] = NoWatcher]
           /\ wt' = [v \in Watchers |->
                       IF v = w THEN [wt[v] EXCEPT !.st = "gone"]
                       ELSE IF v = r THEN [wt[v] EXCEPT !.st = "cancelled"]
                       ELSE wt[v]]
    /\ UNCHANGED <<rvars, xvars, avars, svars, ivars, gvars, cvars>>

WatchNext ==
    \/ \E pages \in SUBSET Targets : \E started \in SUBSET pages :
          refreshWatchers(pages, started)
    \/ \E w \in Watchers : watcherExit(w)

WatchSpec == WatchInit /\ [][WatchNext]_vars

\* C37: a watcher goroutine that terminates removes only its own registration.
\* The step in which the goroutine of watcher w ends changes the registry at
\* most under w's target id and only when w itself was registered there, so a
\* newer watcher of the same id is neither cancelled nor deleted.
RemovesOnlyOwnRegistration ==
    [][\A w \in Watchers :
          (wt[w].st # "gone" /\ wt'[w].st = "gone") =>
              \A id \in Targets :
                  /\ wreg'[id] # wreg[id] => wreg[id] = w
                  /\ (wreg[id] # NoWatcher /\ wreg[id] # w) =>
                        wt'[wreg[id]] = wt[wreg[id]]]_vars

\* =========================================================================
\* Interception per target, for one session of the service: svc.AttachTarget
\* on one goroutine, EnableInterception and DisableInterception on another.
\* None of the three holds svc.mu beyond the lookup of the session, so their
\* steps interleave.  The interceptor keeps an enabled flag (SetEnabled,
\* IsEnabled) and turns interception on or off on a target (EnableTarget,
\* DisableTarget), idempotently per target; the manager keeps the attached
\* targets (AttachTarget, GetAllSessions).

\* interceptor.EnableTarget and DisableTarget on the set of intercepted targets.
EnableTarget(on, t) == on \cup {t}
DisableTarget(on, t) == on \ {t}

\* The AttachTarget call: where it is, its target, whether the target had
\* interception on when the call began, and whether no Enable- or
\* DisableInterception call has begun since.
TCall(p, t, wasOn, undisturbed) ==
    [pc |-> p, target |-> t, wasOn |-> wasOn, undisturbed |-> undisturbed]
NoTCall == TCall("idle", NoTarget, FALSE, TRUE)

NoICall == [pc |-> "idle", snapshot |-> {}]

InterceptInit ==
    /\ RuntimeIdle
    /\ ExecIdle
    /\ AttachIdle
    /\ ServiceIdle
    /\ WatchIdle
    /\ ClientIdle
    /\ CloseIdle
    /\ intrEnabled = FALSE
    /\ msessions = {}
    /\ intercepted = {}
    /\ tpc = NoTCall
    /\ ipc = NoICall
    /\ intrLast = "none"

\* svc.AttachTarget that enables the new target whatever the flag says.
svcAttachTargetCheck_Mut ==
    /\ tpc.pc = "check"
    /\ tpc' = [tpc EXCEPT !.pc = "enable"]
    /\ UNCHANGED <<rvars, xvars, avars, svars, wvars, gvars, cvars, intrEnabled, msessions,
                   intercepted, ipc, intrLast>>

\* svc.AttachTarget(id, t): ses.mgr.AttachTarget attaches the target, or fails
\* and the call returns the error.
svcAttachTarget(t, ok) ==
    /\ tpc.pc \in {"idle", "done", "failed"}
    /\ tpc' = TCall(IF ok THEN "check" ELSE "failed", t, t \in intercepted, TRUE)
    /\ msessions' = IF ok THEN msessions \cup {t} ELSE msessions
    /\ UNCHANGED <<rvars, xvars, avars, svars, wvars, gvars, cvars, intrEnabled, intercepted, ipc,
                   intrLast>>

\* ses.intr.IsEnabled() is read.
svcAttachTargetCheck ==
    /\ tpc.pc = "check"
    /\ tpc' = [tpc EXCEPT !.pc = IF intrEnabled THEN "enable" ELSE "done"]
    /\ UNCHANGED <<rvars, xvars, avars, svars, wvars, gvars, cvars, intrEnabled, msessions,
                   intercepted, ipc, intrLast>>

\* ses.intr.EnableTarget on the new target, and the return.
svcAttachTargetEnable ==
    /\ tpc.pc = "enable"
    /\ intercepted' = EnableTarget(intercepted, tpc.target)
    /\ tpc' = [tpc EXCEPT !.pc = "done"]
    /\ UNCHANGED <<rvars, xvars, avars, svars, wvars, gvars, cvars, intrEnabled, msessions, ipc,
                   intrLast>>

\* EnableInterception and DisableInterception up to GetAllSessions: the flag
\* is set and the attached targets are listed.
SetEnabled(flag) ==
    /\ ipc = NoICall
    /\ intrEnabled' = flag
    /\ ipc' = [pc |-> IF flag THEN "enable" ELSE "disable", snapshot |-> msessions]
    /\ intrLast' = IF flag THEN "enabling" ELSE "disabling"
    /\ tpc' = [tpc EXCEPT !.undisturbed = FALSE]
    /\ UNCHANGED <<rvars, xvars, avars, svars, wvars, gvars, cvars, msessions, intercepted>>

\* The loop over the listed targets, and the return.
EnableTargets ==
    /\ ipc.pc = "enable"
    /\ intercepted' = intercepted \cup ipc.snapshot
    /\ ipc' = NoICall
    /\ intrLast' = "enabled"
    /\ UNCHANGED <<rvars, xvars, avars, svars, wvars, gvars, cvars, intrEnabled, msessions, tpc>>

DisableTargets ==
    /\ ipc.pc = "disable"
    /\ intercepted' = intercepted \ ipc.snapshot
    /\ ipc' = NoICall
    /\ intrLast' = "disabled"
    /\ UNCHANGED <<rvars, xvars, avars, svars, wvars, gvars, cvars, intrEnabled, msessions, tpc>>

InterceptNext ==
    \/ \E t \in Targets, ok \in BOOLEAN : svcAttachTarget(t, ok)
    \/ svcAttachTargetCheck
    \/ svcAttachTargetEnable
    \/ \E flag \in BOOLEAN : SetEnabled(flag)
    \/ EnableTargets
    \/ DisableTargets

InterceptSpec == InterceptInit /\ [][InterceptNext]_vars

DisabledMeansNoneIntercepted ==
    intrLast = "disabled" => intercepted \cap msessions = {}

\* =========================================================================
\* The client and the context a handler makes its protocol calls with.  The
\* manager holds one client and one context, those of its latest attachment
\* (attachments are numbered); handle, buildRuleContext and
\* degradeAndContinue read m.ctx and m.client where they use them.
\* ------------------------------------------------------------------ bounds
MaxAttach == 3      \* attachments made in one behaviour
MaxHandlers == 2    \* paused events handled at one time

Handlers == 1..MaxHandlers
NoPCall == [kind |-> None, origin |-> 0, client |-> 0, ctx |-> 0]
PCall(kind, origin, client, c) ==
    [kind |-> kind, origin |-> origin, client |-> client, ctx |-> c]
NoInflight == [pc |-> "idle", origin |-> 0, stage |-> None, ctx |-> 0]

\* After the first AttachTarget and Enable.
ClientInit ==
    /\ RuntimeIdle
    /\ ExecIdle
    /\ AttachIdle
    /\ ServiceIdle
    /\ WatchIdle
    /\ InterceptIdle
    /\ CloseIdle
    /\ attachGen = 1
    /\ inflight = [h \in Handlers |-> NoInflight]
    /\ pcall = NoPCall

\* AttachTarget or attachAuto succeeds: m.ctx, m.conn and m.client are replaced.
Reattach ==
    /\ attachGen < MaxAttach
    /\ attachGen' = attachGen + 1
    /\ pcall' = NoPCall
    /\ UNCHANGED <<rvars, xvars, avars, svars, wvars, ivars, cvars, inflight>>

\* The consumer of the current attachment receives a paused event and
\* dispatches it.
recvPaused(h, stage) ==
    /\ inflight[h] = NoInflight
    /\ inflight' = [inflight EXCEPT ![h] = [pc |-> "dispatched", origin |-> attachGen,
                                            stage |-> stage, ctx |-> 0]]
    /\ pcall' = NoPCall
    /\ UNCHANGED <<rvars, xvars, avars, svars, wvars, ivars, cvars, attachGen>>

\* The queue was full: degradeAndContinue continues the request with a context
\* derived from m.ctx, on m.client.
degradeCall(h) ==
    /\ inflight[h].pc = "dispatched"
    /\ pcall' = PCall("terminal", inflight[h].origin, attachGen, attachGen)
    /\ inflight' = [inflight EXCEPT ![h] = NoInflight]
    /\ UNCHANGED <<rvars, xvars, avars, svars, wvars, ivars, cvars, attachGen>>

\* handle starts: ctx is derived from m.ctx.
handleStart(h) ==
    /\ inflight[h].pc = "dispatched"
    /\ inflight' = [inflight EXCEPT ![h].pc = "decide", ![h].ctx = attachGen]
    /\ pcall' = NoPCall
    /\ UNCHANGED <<rvars, xvars, avars, svars, wvars, ivars, cvars, attachGen>>

\* decide: in the response stage buildRuleContext fetches the body with a
\* context derived from m.ctx, on m.client.
decide(h) ==
    /\ inflight[h].pc = "decide"
    /\ pcall' = IF inflight[h].stage = "response"
                THEN PCall("body", inflight[h].origin, attachGen, attachGen)
                ELSE NoPCall
    /\ inflight' = [inflight EXCEPT ![h].pc = "apply"]
    /\ UNCHANGED <<rvars, xvars, avars, svars, wvars, ivars, cvars, attachGen>>

\* The terminal call of handle: with handle's ctx, on m.client.
applyCall(h) ==
    /\ inflight[h].pc = "apply"
    /\ pcall' = PCall("terminal", inflight[h].origin, attachGen, inflight[h].ctx)
    /\ inflight' = [inflight EXCEPT ![h] = NoInflight]
    /\ UNCHANGED <<rvars, xvars, avars, svars, wvars, ivars, cvars, attachGen>>

ClientNext ==
    \/ Reattach
    \/ \E h \in Handlers, stage \in {"request", "response"} : recvPaused(h, stage)
    \/ \E h \in Handlers : degradeCall(h)
    \/ \E h \in Handlers : handleStart(h)
    \/ \E h \in Handlers : decide(h)
    \/ \E h \in Handlers : applyCall(h)

ClientSpec == ClientInit /\ [][ClientNext]_vars

\* C35: the response-body fetch and the terminal call for a paused event are
\* issued on the client and under the session context of the attachment that
\* produced the event, also when the manager re-attaches while the event is
\* being handled.
CallsOnOriginClient ==
    pcall # NoPCall => (pcall.client = pcall.origin /\ pcall.ctx = pcall.origin)

\* =========================================================================
\* The event channel of a session when StopSession runs.  The senders are the
\* handlers, which the pool's workers run (handle sends "intercepted" when it
\* starts and one more event when it has applied an action), and the consumer
\* goroutine, which runs degradeAndContinue itself when the pool rejects a
\* task.  A send blocks while the channel is full and panics once the channel
\* is closed.  StopSession stops the pool, which waits for its workers to
\* drain, detaches every target and closes the channel.
\* ------------------------------------------------------------------ bounds
PoolSize == 2       \* workers of the pool
ChanCap == 2        \* capacity of the event channel

PoolWorkers == 1..PoolSize

CloseInit ==
    /\ RuntimeIdle
    /\ ExecIdle
    /\ AttachIdle
    /\ ServiceIdle
    /\ WatchIdle
    /\ InterceptIdle
    /\ ClientIdle
    /\ stopStep = "running"
    /\ handlers = [w \in PoolWorkers |-> "idle"]
    /\ degrader = "recv"
    /\ buffered = 0
    /\ sendOnClosed = FALSE

\* A send on the event channel: it goes through when there is room, and
\* panics when the channel is closed.
CanSend == stopStep = "closed" \/ buffered < ChanCap

Send ==
    /\ sendOnClosed' = (stopStep = "closed")
    /\ buffered' = IF stopStep = "closed" THEN buffered ELSE buffered + 1

\* The consumer receives a paused event and the pool takes the task: worker w
\* runs handle.
submitTask(w) ==
    /\ stopStep = "running"
    /\ degrader = "recv"
    /\ handlers[w] = "idle"
    /\ handlers' = [handlers EXCEPT ![w] = "start"]
    /\ sendOnClosed' = FALSE
    /\ UNCHANGED <<rvars, xvars, avars, svars, wvars, ivars, gvars, stopStep, degrader,
                   buffered>>

\* The pool rejects the task: the consumer enters degradeAndContinue.
submitRejected ==
    /\ stopStep = "running"
    /\ degrader = "recv"
    /\ \A w \in PoolWorkers : handlers[w] # "idle"
    /\ degrader' = "degrading"
    /\ sendOnClosed' = FALSE
    /\ UNCHANGED <<rvars, xvars, avars, svars, wvars, ivars, gvars, stopStep, handlers,
                   buffered>>

\* handle sends "intercepted".
handleIntercepted(w) ==
    /\ handlers[w] = "start"
    /\ CanSend
    /\ Send
    /\ handlers' = [handlers EXCEPT ![w] = "decided"]
    /\ UNCHANGED <<rvars, xvars, avars, svars, wvars, ivars, gvars, stopStep, degrader>>

\* handle applies the action and sends its event (emits), or returns after a
\* plain continue without one.
handleDone(w, emits) ==
    /\ handlers[w] = "decided"
    /\ IF emits THEN CanSend /\ Send ELSE sendOnClosed' = FALSE /\ UNCHANGED buffered
    /\ handlers' = [handlers EXCEPT ![w] = "idle"]
    /\ UNCHANGED <<rvars, xvars, avars, svars, wvars, ivars, gvars, stopStep, degrader>>

\* degradeAndContinue sends "degraded"; the consumer goes back to Recv, which
\* fails once the target is detached.
degradeSend ==
    /\ degrader = "degrading"
    /\ CanSend
    /\ Send
    /\ degrader' = IF stopStep = "closed" THEN "gone" ELSE "recv"
    /\ UNCHANGED <<rvars, xvars, avars, svars, wvars, ivars, gvars, stopStep, handlers>>

\* The subscriber takes an event from the channel.
subscriberRecv ==
    /\ buffered > 0
    /\ buffered' = buffered - 1
    /\ sendOnClosed' = FALSE
    /\ UNCHANGED <<rvars, xvars, avars, svars, wvars, ivars, gvars, stopStep, handlers,
                   degrader>>

\* StopSession up to workPool.Stop(): the session is taken out of the map,
\* interception is disabled on the targets, and Stop waits for the workers.
StopSessionStopPool ==
    /\ stopStep = "running"
    /\ stopStep' = "draining"
    /\ sendOnClosed' = FALSE
    /\ UNCHANGED <<rvars, xvars, avars, svars, wvars, ivars, gvars, handlers, degrader,
                   buffered>>

\* The workers have drained: DetachAll, close(ses.events).
StopSessionClose ==
    /\ stopStep = "draining"
    /\ \A w \in PoolWorkers : handlers[w] = "idle"
    /\ stopStep' = "closed"
    /\ degrader' = IF degrader = "recv" THEN "gone" ELSE degrader
    /\ sendOnClosed' = FALSE
    /\ UNCHANGED <<rvars, xvars, avars, svars, wvars, ivars, gvars, handlers, buffered>>

CloseNext ==
    \/ \E w \in PoolWorkers : submitTask(w)
    \/ submitRejected
    \/ \E w \in PoolWorkers : handleIntercepted(w)
    \/ \E w \in PoolWorkers, emits \in BOOLEAN : handleDone(w, emits)
    \/ degradeSend
    \/ subscriberRecv
    \/ StopSessionStopPool
    \/ StopSessionClose

CloseSpec == CloseInit /\ [][CloseNext]_vars

\* C34: no goroutine sends on the event channel of a session after StopSession
\* has closed it.
NoSendAfterClose == ~sendOnClosed
====
